---- MODULE Spec2Model ----
(***************************************************************************)
(* Verification model of p2p-video-calling-secure: the quality controller, *)
(* the rendezvous broker (room store, admission, relay), the offline       *)
(* signal-packet codec and the call controller (WebRtcCallManager).  Each  *)
(* subsystem has its own specification over the shared variable tuple; the *)
(* variables of the other subsystems stay at their initial values.         *)
(***************************************************************************)
EXTENDS Integers, Sequences, FiniteSets, Bags, TLC

VARIABLES
    \* ---- QualityController (qualityController.ts) ----
    qualityState,        \* private qualityState
    stableSampleCount,   \* private stableSampleCount
    lastCall,            \* the most recent call on the controller: input, pre-state, decision
    goodRun,             \* history: consecutive good samples fed to evaluate so far
    \* ---- Rendezvous broker (backend/src/server.ts, roomStore.ts) ----
    clock,               \* Date.now() of the broker process
    rooms,               \* RoomStore.rooms: Map roomId -> RoomRecord
    issuedRooms,         \* number of room identifiers minted so far
    connectionsByRoom,   \* Map roomId -> Map peerId -> ClientConnection, in insertion order
    detached,            \* bag of live sockets whose connection is in no Map any more
    brokerOut,           \* the event handled last and every frame / response it sent
    relayLog,            \* history: typed frames as they arrived, relayed frames as they were sent
    \* ---- Signal-packet codec (src/lib/signalPacket.ts, signalCrypto.ts) ----
    codecNow,            \* Date.now() of the browsers exchanging the packet
    packet,              \* one packet on its way: inputs, envelope, transport text, outcome
    \* ---- Call controller (src/lib/webrtcCallManager.ts) ----
    peerConnection,      \* RTCPeerConnection: connectionState, iceGatheringState
    channels,            \* readyState of chatChannel and diagChannel
    sessionId,           \* private sessionId
    activeQuality,       \* private activeQuality
    statsTimer,          \* private statsTimer: null or the interval's handle
    connectWatchdog,     \* private connectWatchdog: null or the timeout's handle
    localIceCandidates,  \* length of localIceCandidates
    timers,              \* the browser's table of armed timeouts and intervals: due in .. ms
    pendingOp,           \* createOfferPayload / acceptOfferAndCreateAnswer: where it is suspended
    iceWait,             \* closure of waitForIceGatheringComplete: done, settleTimer, timeout, listeners
    statsTick,           \* collectAndBroadcastStats: where it is suspended
    callOut,             \* callbacks invoked and entries written by the step taken last
    callTrace,           \* history: close() returned, watchdog armed, failures reported
    \* ---- RateLimiter (backend/src/rateLimiter.ts) ----
    limiter,             \* windowMs, maxRequests and the buckets Map of one RateLimiter
    limiterNow,          \* Date.now() as the limiter's callers pass it
    limiterTrace,        \* history: the call made last and the instants of the granted calls
    \* ---- App component: packet unlock protection (src/App.tsx) ----
    app,                 \* decryptFailureCount, decryptCooldownUntil, manager, busy, the flow under way
    appNow,              \* Date.now() in the browser tab
    appTrace,            \* history: outcome of the handler run last, recent failed unlocks
    \* ---- signalCrypto.ts called on its own ----
    cryptoCall,          \* the decryptJsonPayload call made last: blob, arguments, result
    \* ---- Call controllers exchanging offer and answer packets ----
    peers,               \* per controller: sessionId, signaling state, remote description, candidates
    exchanged,           \* the offer and answer payloads produced so far
    handshakeOut,        \* history: the applyAnswer / acceptOfferAndCreateAnswer call made last
    \* ---- DiagnosticsLog ----
    diagLog,             \* localEvents and remoteEvents
    diagNow,             \* Date.now()
    diagOut,             \* history: the call made last and what it returned
    \* ---- Data channels of a call controller: incoming frames ----
    inbox,               \* callbacks invoked, remote diagnostics added, errors raised, frame handled last
    \* ---- A call controller sending on its chat channel, and its peer ----
    controls,            \* local tracks, chat channel, lastChatSentAt, clock, what the peer surfaced
    chatWire,            \* frames handed to the chat channel and not yet delivered
    controlsOut,         \* history: the method called last and what it did
    \* ---- turn.ts: buildTurnCredentials called on its own ----
    turnCall,           \* the buildTurnCredentials call made last: arguments and result
    \* ---- media.ts: getLocalMediaStream called on its own ----
    mediaCall,          \* the getLocalMediaStream call made last: the browser it ran in, the requests it made and its outcome
    \* ---- webrtcCallManager.ts: the stats loop with ticks that overlap ----
    statsLoop,          \* collectAndBroadcastStats calls in flight, and what the tick completed last did
    \* ---- signalPacket.ts: the chunk lines of a pasted text, their indices as written ----
    chunkCall,          \* the lines decodeEnvelopeFromTransport was given last and what the grouping made of them
    \* ---- Online mode: the call pages of one room (components/CallPage) and the broker's part in it ----
    pages,               \* the host's and the guest's call page: socket, signalingState, refs, handlers suspended
    roomSessions,        \* the broker's sessions of the room, and whether an offer was relayed to the guest
    wires                \* frames on their way, per socket and in order: page to broker, broker to page

qualityVars == <<qualityState, stableSampleCount, lastCall, goodRun>>

brokerVars == <<clock, rooms, issuedRooms, connectionsByRoom, detached, brokerOut>>

codecVars == <<codecNow, packet>>

callVars == <<peerConnection, channels, sessionId, activeQuality, statsTimer,
              connectWatchdog, localIceCandidates, timers, pendingOp, iceWait,
              statsTick, callOut, callTrace>>

brokerHistoryVars == <<relayLog>>

vars == <<qualityState, stableSampleCount, lastCall, goodRun,
          clock, rooms, issuedRooms, connectionsByRoom, detached, brokerOut, relayLog,
          codecNow, packet,
          peerConnection, channels, sessionId, activeQuality, statsTimer,
          connectWatchdog, localIceCandidates, timers, pendingOp, iceWait,
          statsTick, callOut, callTrace,
          limiter, limiterNow, limiterTrace,
          app, appNow, appTrace, cryptoCall,
          peers, exchanged, handshakeOut,
          diagLog, diagNow, diagOut, inbox,
          controls, chatWire, controlsOut,
          turnCall,
          mediaCall,
          statsLoop,
          chunkCall,
          pages, roomSessions, wires>>

limiterVars == <<limiter, limiterNow, limiterTrace>>

appVars == <<app, appNow, appTrace>>

cryptoVars == <<cryptoCall>>

handshakeVars == <<peers, exchanged, handshakeOut>>

diagVars == <<diagLog, diagNow, diagOut>>

inboxVars == <<inbox>>

controlsVars == <<controls, chatWire, controlsOut>>

turnVars == <<turnCall>>

mediaVars == <<mediaCall>>

statsVars == <<statsLoop>>

\* The subsystems modelled after the first four.
chunkVars == <<chunkCall>>

onlineVars == <<pages, roomSessions, wires>>

laterVars == <<limiterVars, appVars, cryptoVars, handshakeVars, diagVars, inboxVars,
               controlsVars, turnVars, mediaVars, statsVars, chunkVars, onlineVars>>

\* What the steps of one subsystem leave alone.
notQualityVars == <<brokerVars, brokerHistoryVars, codecVars, callVars, laterVars>>
notBrokerVars == <<qualityVars, brokerHistoryVars, codecVars, callVars, laterVars>>
notCodecVars == <<qualityVars, brokerVars, brokerHistoryVars, callVars, laterVars>>
\* The call controller owns a QualityController, so its steps say themselves
\* what becomes of the quality variables.
notCallVars == <<brokerVars, brokerHistoryVars, codecVars, laterVars>>
firstVars == <<qualityVars, brokerVars, brokerHistoryVars, codecVars, callVars>>
notLimiterVars == <<firstVars, appVars, cryptoVars, handshakeVars, diagVars, inboxVars, controlsVars, turnVars, mediaVars, statsVars, chunkVars, onlineVars>>
notAppVars == <<firstVars, limiterVars, cryptoVars, handshakeVars, diagVars, inboxVars, controlsVars, turnVars, mediaVars, statsVars, chunkVars, onlineVars>>
notCryptoVars == <<firstVars, limiterVars, appVars, handshakeVars, diagVars, inboxVars, controlsVars, turnVars, mediaVars, statsVars, chunkVars, onlineVars>>
notHandshakeVars == <<firstVars, limiterVars, appVars, cryptoVars, diagVars, inboxVars, controlsVars, turnVars, mediaVars, statsVars, chunkVars, onlineVars>>

notDiagVars == <<firstVars, limiterVars, appVars, cryptoVars, handshakeVars, inboxVars, controlsVars, turnVars, mediaVars, statsVars, chunkVars, onlineVars>>
notInboxVars == <<firstVars, limiterVars, appVars, cryptoVars, handshakeVars, diagVars, controlsVars, turnVars, mediaVars, statsVars, chunkVars, onlineVars>>
notControlsVars == <<firstVars, limiterVars, appVars, cryptoVars, handshakeVars, diagVars, inboxVars, turnVars, mediaVars, statsVars, chunkVars, onlineVars>>
notTurnVars == <<firstVars, limiterVars, appVars, cryptoVars, handshakeVars, diagVars, inboxVars, controlsVars, mediaVars, statsVars, chunkVars, onlineVars>>
notMediaVars == <<firstVars, limiterVars, appVars, cryptoVars, handshakeVars, diagVars, inboxVars, controlsVars, turnVars, statsVars, chunkVars, onlineVars>>
\* The stats loop belongs to the call controller: its steps write activeQuality
\* and the quality variables.
notStatsVars == <<brokerVars, brokerHistoryVars, codecVars,
                  peerConnection, channels, sessionId, statsTimer, connectWatchdog,
                  localIceCandidates, timers, pendingOp, iceWait, statsTick, callOut,
                  callTrace, limiterVars, appVars, cryptoVars, handshakeVars, diagVars,
                  inboxVars, controlsVars, turnVars, mediaVars, chunkVars, onlineVars>>
notChunksVars == <<firstVars, limiterVars, appVars, cryptoVars, handshakeVars, diagVars, inboxVars, controlsVars, turnVars, mediaVars, statsVars, onlineVars>>
notOnlineVars == <<firstVars, limiterVars, appVars, cryptoVars, handshakeVars, diagVars, inboxVars, controlsVars, turnVars, mediaVars, statsVars, chunkVars>>
(***************************************************************************)
(* Quality controller                                                      *)
(***************************************************************************)

HD_1080 == "HD_1080"
HD_720 == "HD_720"
SD_480 == "SD_480"
RECOVERING == "RECOVERING"

QualityStates == {HD_1080, HD_720, SD_480, RECOVERING}

QUALITY_STEPS == <<HD_1080, HD_720, SD_480>>

BAD_PACKET_LOSS_PCT == 5
BAD_RTT_MS == 220
BAD_JITTER_MS == 30
GOOD_PACKET_LOSS_PCT == 2
GOOD_RTT_MS == 130
GOOD_JITTER_MS == 16
STABLE_SAMPLES_TO_RECOVER == 8

\* Longest run of consecutive good samples the model feeds to evaluate.
MaxGoodRun == 17

\* Array.prototype.indexOf on QUALITY_STEPS: zero-based index, -1 when absent.
IndexOfStep(state) ==
    IF \E i \in 1..Len(QUALITY_STEPS) : QUALITY_STEPS[i] = state
    THEN (CHOOSE i \in 1..Len(QUALITY_STEPS) : QUALITY_STEPS[i] = state) - 1
    ELSE -1

\* QUALITY_STEPS[index] with a zero-based index.
StepAt(index) == QUALITY_STEPS[index + 1]

\* Telemetry samples around every threshold of the controller.
Snapshots ==
    [packetLossPct : {GOOD_PACKET_LOSS_PCT, GOOD_PACKET_LOSS_PCT + 1, BAD_PACKET_LOSS_PCT},
     rttMs : {GOOD_RTT_MS, GOOD_RTT_MS + 1, BAD_RTT_MS},
     jitterMs : {GOOD_JITTER_MS, GOOD_JITTER_MS + 1, BAD_JITTER_MS}]

BadNetworkStrict(snapshot) ==
    \/ snapshot.packetLossPct > BAD_PACKET_LOSS_PCT
    \/ snapshot.rttMs > BAD_RTT_MS
    \/ snapshot.jitterMs > BAD_JITTER_MS

badNetwork(snapshot) ==
    \/ snapshot.packetLossPct >= BAD_PACKET_LOSS_PCT
    \/ snapshot.rttMs >= BAD_RTT_MS
    \/ snapshot.jitterMs >= BAD_JITTER_MS

goodNetwork(snapshot) ==
    /\ snapshot.packetLossPct <= GOOD_PACKET_LOSS_PCT
    /\ snapshot.rttMs <= GOOD_RTT_MS
    /\ snapshot.jitterMs <= GOOD_JITTER_MS

\* evaluate() on the good path with the recovery threshold off by one.
EvaluateEarlyRecovery(state, count, snapshot) ==
    IF badNetwork(snapshot)
    THEN LET currentIndex == IndexOfStep(state) IN
         IF currentIndex < Len(QUALITY_STEPS) - 1
         THEN [state |-> StepAt(currentIndex + 1), count |-> 0,
               nextState |-> StepAt(currentIndex + 1), changed |-> TRUE]
         ELSE [state |-> state, count |-> 0, nextState |-> state, changed |-> FALSE]
    ELSE IF ~goodNetwork(snapshot)
    THEN [state |-> state, count |-> 0, nextState |-> state, changed |-> FALSE]
    ELSE IF count + 1 < STABLE_SAMPLES_TO_RECOVER - 1
    THEN [state |-> state, count |-> count + 1, nextState |-> state, changed |-> FALSE]
    ELSE IF IndexOfStep(state) > 0
    THEN [state |-> RECOVERING, count |-> 0, nextState |-> RECOVERING, changed |-> TRUE]
    ELSE [state |-> state, count |-> 0, nextState |-> state, changed |-> FALSE]

\* evaluate(snapshot) as a function of the controller's fields: the fields
\* after the call and the QualityDecision it returns.
evaluate(state, count, snapshot) ==
    IF badNetwork(snapshot)
    THEN LET currentIndex == IndexOfStep(state) IN
         IF currentIndex < Len(QUALITY_STEPS) - 1
         THEN [state |-> StepAt(currentIndex + 1), count |-> 0,
               nextState |-> StepAt(currentIndex + 1), changed |-> TRUE]
         ELSE [state |-> state, count |-> 0, nextState |-> state, changed |-> FALSE]
    ELSE IF ~goodNetwork(snapshot)
    THEN [state |-> state, count |-> 0, nextState |-> state, changed |-> FALSE]
    ELSE IF count + 1 < STABLE_SAMPLES_TO_RECOVER
    THEN [state |-> state, count |-> count + 1, nextState |-> state, changed |-> FALSE]
    ELSE IF IndexOfStep(state) > 0
    THEN [state |-> RECOVERING, count |-> 0, nextState |-> RECOVERING, changed |-> TRUE]
    ELSE [state |-> state, count |-> 0, nextState |-> state, changed |-> FALSE]

\* completeRecovery(): reports HD_1080 from RECOVERING; assigns no field.
completeRecovery(state, count) ==
    IF state # RECOVERING
    THEN [state |-> state, count |-> count, nextState |-> state, changed |-> FALSE]
    ELSE [state |-> state, count |-> count, nextState |-> HD_1080, changed |-> TRUE]

\* forceState(target)
forceState(state, count, target) ==
    [state |-> target, count |-> 0, nextState |-> target, changed |-> (state # target)]

NoCall == [op |-> "none"]

QualityInit ==
    /\ qualityState = HD_1080
    /\ stableSampleCount = 0
    /\ lastCall = NoCall
    /\ goodRun = 0

\* controller.evaluate(snapshot)
Evaluate(snapshot) ==
    LET r == evaluate(qualityState, stableSampleCount, snapshot)
        isGood == goodNetwork(snapshot) /\ ~badNetwork(snapshot)
    IN
    /\ isGood => goodRun < MaxGoodRun
    /\ qualityState' = r.state
    /\ stableSampleCount' = r.count
    /\ goodRun' = IF isGood THEN goodRun + 1 ELSE 0
    /\ lastCall' = [op |-> "evaluate", snapshot |-> snapshot,
                    before |-> qualityState, countBefore |-> stableSampleCount,
                    runBefore |-> goodRun,
                    nextState |-> r.nextState, changed |-> r.changed]

\* controller.forceState(target)
ForceState(target) ==
    LET r == forceState(qualityState, stableSampleCount, target) IN
    /\ qualityState' = r.state
    /\ stableSampleCount' = r.count
    /\ goodRun' = goodRun
    /\ lastCall' = [op |-> "forceState", target |-> target,
                    before |-> qualityState, countBefore |-> stableSampleCount,
                    runBefore |-> goodRun,
                    nextState |-> r.nextState, changed |-> r.changed]

\* controller.completeRecovery()
CompleteRecovery ==
    LET r == completeRecovery(qualityState, stableSampleCount) IN
    /\ qualityState' = r.state
    /\ stableSampleCount' = r.count
    /\ goodRun' = goodRun
    /\ lastCall' = [op |-> "completeRecovery",
                    before |-> qualityState, countBefore |-> stableSampleCount,
                    runBefore |-> goodRun,
                    nextState |-> r.nextState, changed |-> r.changed]
    /\ UNCHANGED notQualityVars

(***************************************************************************)
(* Rendezvous broker: room store, admission, relay                         *)
(***************************************************************************)

\* Rooms the model lets POST /v1/rooms mint.
MaxRooms == 1
\* WebSockets that can be alive at the same time.
MaxConns == 2
\* WebSockets that can be alive at the same time in the crowded broker.
CrowdConns == 3
\* Last value of the broker's clock.
MaxClock == 1
\* config.roomTtlSeconds * 1000, in clock ticks.
RoomTtl == 1

\* Frames whose arrival and relay the history follows.
MaxArrivals == 2

WEBSOCKET_MAX_PAYLOAD_BYTES == 64000

\* Room identifiers; createRoomId mints them in order.
RoomIds == 1..MaxRooms
\* A roomId as a client writes it: the identifier as minted ("lower"), the
\* same in capitals with blanks around it ("upper"), or text that does not
\* match ROOM_ID_PATTERN ("malformed").
RoomIdText(roomId, form) == [roomId |-> roomId, form |-> form]
RoomIdTexts ==
    {RoomIdText(roomId, form) : roomId \in RoomIds, form \in {"lower", "upper"}}
    \cup {RoomIdText(1, "malformed")}

\* peerId query values after String(...).slice(0, 80); "peerId=" gives "".
PeerIds == {"", "a", "b"}

\* A nullable / optional JavaScript value: null (undefined) or one value.
Null == {}
Some(x) == {x}
ValueOf(opt) == CHOOSE x \in opt : TRUE
\* JavaScript truthiness of a nullable string: null and "" are falsy.
Truthy(opt) == opt # Null /\ opt # Some("")

\* Map.delete / Map.set on a Map modelled as a function.
MapDelete(map, key) == [k \in (DOMAIN map) \ {key} |-> map[k]]
MapSet(map, key, value) ==
    [k \in (DOMAIN map) \cup {key} |-> IF k = key THEN value ELSE map[k]]

\* Map<peerId, ClientConnection> in insertion order: a sequence of entries.
PeerMapHas(entries, peerId) == \E i \in 1..Len(entries) : entries[i].peerId = peerId
PeerMapGet(entries, peerId) ==
    entries[CHOOSE i \in 1..Len(entries) : entries[i].peerId = peerId]
PeerMapSet(entries, peerId, connection) ==
    IF PeerMapHas(entries, peerId)
    THEN [i \in 1..Len(entries) |->
            IF entries[i].peerId = peerId THEN connection ELSE entries[i]]
    ELSE Append(entries, connection)
PeerMapDelete(entries, peerId) == SelectSeq(entries, LAMBDA e : e.peerId # peerId)

\* sanitizeRoomId: the normalized id, or null when the pattern does not match.
sanitizeRoomId(rawValue) ==
    LET normalized == IF rawValue.form = "upper"
                      THEN RoomIdText(rawValue.roomId, "lower") ELSE rawValue
    IN IF normalized.form # "lower" THEN Null ELSE Some(normalized.roomId)

\* RoomStore.participantCount
participantCount(rs, roomId) ==
    IF roomId \notin DOMAIN rs THEN 0
    ELSE (IF Truthy(rs[roomId].hostPeerId) THEN 1 ELSE 0)
       + (IF Truthy(rs[roomId].guestPeerId) THEN 1 ELSE 0)

\* getActiveRoom as it would be if a room were still active at the instant
\* expiresAt itself.
GetActiveRoomThroughExpiry(rs, roomId, now) ==
    IF roomId \notin DOMAIN rs THEN [room |-> Null, rooms |-> rs]
    ELSE IF rs[roomId].expiresAt < now
    THEN [room |-> Null, rooms |-> MapDelete(rs, roomId)]
    ELSE [room |-> Some(rs[roomId]), rooms |-> rs]

\* RoomStore.getActiveRoom: the room (or null) and the store afterwards.
getActiveRoom(rs, roomId, now) ==
    IF roomId \notin DOMAIN rs THEN [room |-> Null, rooms |-> rs]
    ELSE IF rs[roomId].expiresAt <= now
    THEN [room |-> Null, rooms |-> MapDelete(rs, roomId)]
    ELSE [room |-> Some(rs[roomId]), rooms |-> rs]

\* validateJoin as it would be if it counted the participants before it
\* looked at who owns the role.
ValidateJoinCountingFirst(rs, roomId, peerId, role, now) ==
    IF roomId \notin DOMAIN rs
    THEN [ok |-> FALSE, code |-> "ROOM_NOT_FOUND", rooms |-> rs]
    ELSE LET room == rs[roomId]
             currentCount == participantCount(rs, roomId)
             isExistingPeer == \/ room.hostPeerId = Some(peerId)
                               \/ room.guestPeerId = Some(peerId)
         IN
         IF room.expiresAt <= now
         THEN [ok |-> FALSE, code |-> "ROOM_EXPIRED", rooms |-> MapDelete(rs, roomId)]
         ELSE IF role # "host" /\ role # "guest"
         THEN [ok |-> FALSE, code |-> "INVALID_ROLE", rooms |-> rs]
         ELSE IF currentCount >= 2 /\ ~isExistingPeer
         THEN [ok |-> FALSE, code |-> "ROOM_FULL", rooms |-> rs]
         ELSE IF role = "host" /\ Truthy(room.hostPeerId) /\ room.hostPeerId # Some(peerId)
         THEN [ok |-> FALSE, code |-> "ROLE_TAKEN", rooms |-> rs]
         ELSE IF role = "guest" /\ Truthy(room.guestPeerId) /\ room.guestPeerId # Some(peerId)
         THEN [ok |-> FALSE, code |-> "ROLE_TAKEN", rooms |-> rs]
         ELSE [ok |-> TRUE, code |-> "", rooms |-> rs]

\* RoomStore.validateJoin: the JoinResult and the store afterwards.
validateJoin(rs, roomId, peerId, role, now) ==
    IF roomId \notin DOMAIN rs
    THEN [ok |-> FALSE, code |-> "ROOM_NOT_FOUND", rooms |-> rs]
    ELSE LET room == rs[roomId] IN
         IF room.expiresAt <= now
         THEN [ok |-> FALSE, code |-> "ROOM_EXPIRED", rooms |-> MapDelete(rs, roomId)]
         ELSE IF role # "host" /\ role # "guest"
         THEN [ok |-> FALSE, code |-> "INVALID_ROLE", rooms |-> rs]
         ELSE IF role = "host" /\ Truthy(room.hostPeerId) /\ room.hostPeerId # Some(peerId)
         THEN [ok |-> FALSE, code |-> "ROLE_TAKEN", rooms |-> rs]
         ELSE IF role = "guest" /\ Truthy(room.guestPeerId) /\ room.guestPeerId # Some(peerId)
         THEN [ok |-> FALSE, code |-> "ROLE_TAKEN", rooms |-> rs]
         ELSE LET currentCount == participantCount(rs, roomId)
                  isExistingPeer == \/ room.hostPeerId = Some(peerId)
                                    \/ room.guestPeerId = Some(peerId)
              IN IF currentCount >= 2 /\ ~isExistingPeer
                 THEN [ok |-> FALSE, code |-> "ROOM_FULL", rooms |-> rs]
                 ELSE [ok |-> TRUE, code |-> "", rooms |-> rs]

\* RoomStore.addParticipant
addParticipant(rs, roomId, peerId, role) ==
    IF roomId \notin DOMAIN rs THEN rs
    ELSE IF role = "host"
    THEN [rs EXCEPT ![roomId].hostPeerId = Some(peerId)]
    ELSE [rs EXCEPT ![roomId].guestPeerId = Some(peerId)]

\* removeParticipant as it would be if it emptied the room when either slot
\* names the peer.
RemoveParticipantEmptyingRoom(rs, roomId, peerId) ==
    IF roomId \notin DOMAIN rs THEN rs
    ELSE IF rs[roomId].hostPeerId = Some(peerId) \/ rs[roomId].guestPeerId = Some(peerId)
    THEN [rs EXCEPT ![roomId].hostPeerId = Null, ![roomId].guestPeerId = Null]
    ELSE rs

\* RoomStore.removeParticipant
removeParticipant(rs, roomId, peerId) ==
    IF roomId \notin DOMAIN rs THEN rs
    ELSE [rs EXCEPT
            ![roomId].hostPeerId = IF @ = Some(peerId) THEN Null ELSE @,
            ![roomId].guestPeerId = IF @ = Some(peerId) THEN Null ELSE @]

\* RoomStore.cleanupExpired: the evicted ids and the store afterwards.
cleanupExpired(rs, now) ==
    LET removed == {roomId \in DOMAIN rs : rs[roomId].expiresAt <= now} IN
    [removed |-> removed, rooms |-> [k \in (DOMAIN rs) \ removed |-> rs[k]]]

\* mapJoinErrorToHttp(code).status
mapJoinErrorToHttp(code) ==
    CASE code = "ROOM_NOT_FOUND" -> 404
      [] code = "ROOM_EXPIRED" -> 410
      [] code = "ROOM_FULL" -> 409
      [] code = "ROLE_TAKEN" -> 409
      [] OTHER -> 400

\* isRelayType as it would be if it let through every type but heartbeat.
IsRelayTypeAnyButHeartbeat(type) == type # "heartbeat"

isRelayType(type) == type \in {"offer", "answer", "ice-candidate", "chat"}

\* encodeMessage: the frame as sent, stamped with Date.now().
encodeMessage(message, now) ==
    [type |-> message.type, roomId |-> message.roomId, fromPeerId |-> message.fromPeerId,
     toPeerId |-> message.toPeerId, payload |-> message.payload, timestamp |-> now]

\* sendSocketMessage / sendSocketError: the sends that reach the wire, i.e.
\* those to a socket whose readyState is OPEN.
sendSocketMessage(connection, self, message, now) ==
    IF connection.readyState = "OPEN"
    THEN <<[to |-> [roomId |-> connection.roomId, peerId |-> connection.peerId,
                    role |-> connection.role],
            self |-> self, msg |-> encodeMessage(message, now)]>>
    ELSE <<>>

sendSocketError(connection, self, text, now) ==
    sendSocketMessage(connection, self,
        [type |-> "error", roomId |-> Null, fromPeerId |-> Null, toPeerId |-> Null,
         payload |-> [message |-> text]], now)

\* One send per entry of a sequence of Map entries, in iteration order.
RECURSIVE SendToEach(_, _, _)
SendToEach(entries, message, now) ==
    IF entries = <<>> THEN <<>>
    ELSE sendSocketMessage(Head(entries), FALSE, message, now)
         \o SendToEach(Tail(entries), message, now)

\* relayMessage: the registered peers the loop does not skip, in Map order.
relayTargets(cbr, roomId, sourcePeerId, toPeerId) ==
    IF roomId \notin DOMAIN cbr THEN <<>>
    ELSE SelectSeq(cbr[roomId],
            LAMBDA peer : /\ peer.peerId # sourcePeerId
                          /\ ~(Truthy(toPeerId) /\ Some(peer.peerId) # toPeerId))

\* relayMessage as it would be if it went through the room's peers twice.
RelayMessageRepeating(cbr, roomId, sourcePeerId, message, toPeerId, now) ==
    SendToEach(relayTargets(cbr, roomId, sourcePeerId, toPeerId)
               \o relayTargets(cbr, roomId, sourcePeerId, toPeerId), message, now)

relayMessage(cbr, roomId, sourcePeerId, message, toPeerId, now) ==
    SendToEach(relayTargets(cbr, roomId, sourcePeerId, toPeerId), message, now)

\* The relayed frame keeping the fromPeerId and roomId the sender put in its frame.
RelayedFrameFromIncoming(context, incoming, target) ==
    [type |-> incoming.type,
     roomId |-> IF incoming.roomId # Null THEN incoming.roomId ELSE Some(context.roomId),
     fromPeerId |-> IF incoming.fromPeerId # Null THEN incoming.fromPeerId
                    ELSE Some(context.peerId),
     toPeerId |-> target, payload |-> incoming.payload]

\* The SignalingMessage the message handler hands to relayMessage.
relayedFrame(context, incoming, target) ==
    [type |-> incoming.type, roomId |-> Some(context.roomId),
     fromPeerId |-> Some(context.peerId), toPeerId |-> target,
     payload |-> incoming.payload]

\* A ClientConnection {ws, peerId, role, roomId}; ws.readyState is kept with it.
Connection(roomId, peerId, role, readyState) ==
    [roomId |-> roomId, peerId |-> peerId, role |-> role, readyState |-> readyState]

\* Live sockets: those whose connection object is an entry of connectionsByRoom
\* (attached) and those whose connection object no longer is (detached).
AttachedSockets ==
    UNION {{[attached |-> TRUE, c |-> connectionsByRoom[r][i]] :
                i \in 1..Len(connectionsByRoom[r])} : r \in DOMAIN connectionsByRoom}

DetachedSockets == {[attached |-> FALSE, c |-> x] : x \in BagToSet(detached)}

LiveSockets == AttachedSockets \cup DetachedSockets

RECURSIVE SumLen(_, _)
SumLen(f, keys) ==
    IF keys = {} THEN 0
    ELSE LET k == CHOOSE x \in keys : TRUE IN Len(f[k]) + SumLen(f, keys \ {k})

LiveSocketCount ==
    SumLen(connectionsByRoom, DOMAIN connectionsByRoom) + BagCardinality(detached)

BagAdd(bag, x) == bag (+) SetToBag({x})
BagRemove(bag, x) == bag (-) SetToBag({x})

RECURSIVE BagAddAll(_, _)
BagAddAll(bag, entries) ==
    IF entries = <<>> THEN bag ELSE BagAddAll(BagAdd(bag, Head(entries)), Tail(entries))

NoEvent == [kind |-> "none", sent |-> <<>>]

BrokerInit ==
    /\ clock = 0
    /\ rooms = <<>>
    /\ issuedRooms = 0
    /\ connectionsByRoom = <<>>
    /\ detached = EmptyBag
    /\ brokerOut = NoEvent
    /\ relayLog = [arrived |-> <<>>, delivered |-> <<>>]

\* Date.now() advances.
Tick ==
    /\ clock < MaxClock
    /\ clock' = clock + 1
    /\ brokerOut' = NoEvent
    /\ UNCHANGED <<rooms, issuedRooms, connectionsByRoom, detached>>
    /\ UNCHANGED notBrokerVars

\* POST /v1/rooms -> RoomStore.createRoom.  `allowed` is the verdict of
\* restRateLimiter.allow for the request.
CreateRoom(allowed) ==
    /\ IF ~allowed
       THEN /\ brokerOut' = [kind |-> "createRoom", status |-> 429, sent |-> <<>>]
            /\ UNCHANGED <<rooms, issuedRooms>>
       ELSE /\ issuedRooms < MaxRooms
            /\ LET roomId == issuedRooms + 1
                   room == [roomId |-> roomId, createdAt |-> clock,
                            expiresAt |-> clock + RoomTtl,
                            hostPeerId |-> Null, guestPeerId |-> Null]
               IN /\ rooms' = MapSet(rooms, roomId, room)
                  /\ issuedRooms' = roomId
                  /\ brokerOut' = [kind |-> "createRoom", status |-> 201,
                                   roomId |-> roomId, sent |-> <<>>]
    /\ UNCHANGED <<clock, connectionsByRoom, detached>>

\* GET /v1/rooms/:id
GetRoomStatus(allowed, rawRoomId) ==
    LET roomId == sanitizeRoomId(rawRoomId) IN
    /\ IF ~allowed
       THEN /\ brokerOut' = [kind |-> "roomStatus", status |-> 429, sent |-> <<>>]
            /\ rooms' = rooms
       ELSE IF roomId = Null
       THEN /\ brokerOut' = [kind |-> "roomStatus", status |-> 400, sent |-> <<>>]
            /\ rooms' = rooms
       ELSE LET r == getActiveRoom(rooms, ValueOf(roomId), clock) IN
            /\ rooms' = r.rooms
            /\ brokerOut' =
                 IF r.room = Null
                 THEN [kind |-> "roomStatus", status |-> 404, sent |-> <<>>]
                 ELSE [kind |-> "roomStatus", status |-> 200,
                       roomId |-> ValueOf(roomId),
                       participantCount |-> participantCount(r.rooms, ValueOf(roomId)),
                       sent |-> <<>>]
    /\ UNCHANGED <<clock, issuedRooms, connectionsByRoom, detached>>

\* server.on("upgrade") followed, on success, by onWebSocketConnection.
\* maxSockets bounds the WebSockets alive at the same time; `allowed` is the
\* verdict of wsRateLimiter.allow for the request.
Upgrade(maxSockets, allowed, path, roomIdQuery, peerId, roleValue) ==
    LET roomId == sanitizeRoomId(roomIdQuery)
        role == IF roleValue = "host" THEN "host" ELSE "guest"
        request == [roomId |-> roomIdQuery, peerId |-> peerId, role |-> roleValue]
        Reject(status) == [kind |-> "upgrade", request |-> request, status |-> status,
                           sent |-> <<>>]
    IN
    IF ~allowed
    THEN /\ brokerOut' = Reject(429)
         /\ UNCHANGED <<clock, rooms, issuedRooms, connectionsByRoom, detached>>
    ELSE IF path # "/v1/ws"
    THEN /\ brokerOut' = Reject(404)
         /\ UNCHANGED <<clock, rooms, issuedRooms, connectionsByRoom, detached>>
    ELSE IF roomId = Null \/ (roleValue # "host" /\ roleValue # "guest")
    THEN /\ brokerOut' = Reject(400)
         /\ UNCHANGED <<clock, rooms, issuedRooms, connectionsByRoom, detached>>
    ELSE LET validation == validateJoin(rooms, ValueOf(roomId), peerId, role, clock) IN
         IF ~validation.ok
         THEN /\ rooms' = validation.rooms
              /\ brokerOut' = Reject(mapJoinErrorToHttp(validation.code))
              /\ UNCHANGED <<clock, issuedRooms, connectionsByRoom, detached>>
         ELSE /\ LiveSocketCount < maxSockets
              /\ LET rid == ValueOf(roomId)
                     rooms1 == addParticipant(validation.rooms, rid, peerId, role)
                     roomConnections ==
                         IF rid \in DOMAIN connectionsByRoom
                         THEN connectionsByRoom[rid] ELSE <<>>
                     connection == Connection(rid, peerId, role, "OPEN")
                     cbr1 == MapSet(connectionsByRoom, rid,
                                    PeerMapSet(roomConnections, peerId, connection))
                     sessionJoined ==
                         [type |-> "session-joined", roomId |-> Some(rid),
                          fromPeerId |-> Some(peerId), toPeerId |-> Null,
                          payload |-> [role |-> role,
                                       participantCount |-> participantCount(rooms1, rid)]]
                     peerJoined ==
                         [type |-> "peer-joined", roomId |-> Some(rid),
                          fromPeerId |-> Some(peerId), toPeerId |-> Null,
                          payload |-> [role |-> role]]
                 IN /\ rooms' = rooms1
                    /\ connectionsByRoom' = cbr1
                    \* Map.set on a peerId that is already a key drops the older
                    \* connection object from the Map; its socket stays alive.
                    /\ detached' = IF PeerMapHas(roomConnections, peerId)
                                   THEN BagAdd(detached, PeerMapGet(roomConnections, peerId))
                                   ELSE detached
                    /\ brokerOut' =
                         [kind |-> "upgrade", request |-> request, status |-> 101,
                          sent |-> sendSocketMessage(connection, TRUE, sessionJoined, clock)
                                   \o relayMessage(cbr1, rid, peerId, peerJoined, Null, clock)]
              /\ UNCHANGED <<clock, issuedRooms>>

\* removeConnection(connection): the room store and the registry afterwards,
\* the peer-left sends, and the connection object (if any, other than
\* `connection` itself) that the delete by peerId dropped from the Map.
removeConnection(rs, cbr, sock) ==
    LET connection == sock.c IN
    IF connection.roomId \notin DOMAIN cbr
    THEN [rooms |-> rs, connectionsByRoom |-> cbr, peerLeft |-> <<>>, dropped |-> <<>>]
    ELSE LET before == cbr[connection.roomId]
             roomConnections == PeerMapDelete(before, connection.peerId)
         IN [rooms |-> removeParticipant(rs, connection.roomId, connection.peerId),
             connectionsByRoom |->
                 IF Len(roomConnections) = 0
                 THEN MapDelete(cbr, connection.roomId)
                 ELSE MapSet(cbr, connection.roomId, roomConnections),
             peerLeft |-> roomConnections,
             dropped |-> IF ~sock.attached /\ PeerMapHas(before, connection.peerId)
                         THEN <<PeerMapGet(before, connection.peerId)>> ELSE <<>>]

peerLeftMessage(connection) ==
    [type |-> "peer-left", roomId |-> Some(connection.roomId),
     fromPeerId |-> Some(connection.peerId), toPeerId |-> Null,
     payload |-> [role |-> connection.role]]

\* ws.on("close")
SocketClose(sock) ==
    /\ sock \in LiveSockets
    /\ LET r == removeConnection(rooms, connectionsByRoom, sock) IN
       /\ rooms' = r.rooms
       /\ connectionsByRoom' = r.connectionsByRoom
       /\ detached' = BagAddAll(IF sock.attached THEN detached
                                ELSE BagRemove(detached, sock.c), r.dropped)
       /\ brokerOut' = [kind |-> "close", conn |-> sock,
                        sent |-> SendToEach(r.peerLeft, peerLeftMessage(sock.c), clock)]
    /\ UNCHANGED <<clock, issuedRooms>>

\* ws.on("error"): removeConnection, then ws.close(); the close event follows.
SocketError(sock) ==
    /\ sock \in LiveSockets
    /\ sock.c.readyState = "OPEN"
    /\ LET r == removeConnection(rooms, connectionsByRoom, sock)
           closing == [sock.c EXCEPT !.readyState = "CLOSING"]
       IN
       /\ rooms' = r.rooms
       /\ connectionsByRoom' = r.connectionsByRoom
       /\ detached' = BagAddAll(BagAdd(IF sock.attached THEN detached
                                       ELSE BagRemove(detached, sock.c), closing),
                                r.dropped)
       /\ brokerOut' = [kind |-> "error", conn |-> sock,
                        sent |-> SendToEach(r.peerLeft, peerLeftMessage(sock.c), clock)]
    /\ UNCHANGED <<clock, issuedRooms>>

\* Incoming frames: the raw text's length and what JSON.parse makes of it.
\* The WebSocketServer is created with maxPayload WEBSOCKET_MAX_PAYLOAD_BYTES:
\* a longer message never reaches the handler, the socket errors instead.
\* toPeerId, fromPeerId and roomId are Null when the frame has no such field
\* (for toPeerId also when it is not a string).
ChatTexts ==
    {[len |-> 11, trimmedLen |-> 11], [len |-> 3, trimmedLen |-> 0],
     [len |-> 501, trimmedLen |-> 501]}

JsonFrame(type, toPeerId, spoofed, payload) ==
    [length |-> 120, parsed |-> "object", typeIsString |-> TRUE, type |-> type,
     toPeerId |-> toPeerId,
     fromPeerId |-> IF spoofed THEN Some("b") ELSE Null,
     roomId |-> IF spoofed THEN Some(MaxRooms + 1) ELSE Null,
     payload |-> payload]

Frames ==
    {[length |-> WEBSOCKET_MAX_PAYLOAD_BYTES, parsed |-> "malformed"],
     [length |-> 120, parsed |-> "object", typeIsString |-> FALSE, type |-> "",
      toPeerId |-> Null, fromPeerId |-> Null, roomId |-> Null,
      payload |-> [kind |-> "other"]]}
    \cup {JsonFrame("offer", to, to = Null, [kind |-> "other"]) :
            to \in {Null, Some(""), Some("a")}}
    \cup {JsonFrame(type, Null, FALSE, [kind |-> "other"]) :
            type \in {"answer", "ice-candidate", "heartbeat", "bye", "peer-left"}}
    \cup {JsonFrame("chat", Null, FALSE, [kind |-> "text", text |-> text]) :
            text \in ChatTexts}

\* ws.on("message")
Message(sock, frame) ==
    /\ sock \in LiveSockets
    /\ LET context == sock.c
           Out(sent) == [kind |-> "message", conn |-> sock, frame |-> frame, sent |-> sent]
           closing == [sock.c EXCEPT !.readyState = "CLOSING"]
       IN
       IF frame.length > WEBSOCKET_MAX_PAYLOAD_BYTES
       THEN /\ brokerOut' = Out(sendSocketError(context, TRUE, "Message is too large.", clock))
            /\ IF sock.attached
               THEN /\ connectionsByRoom' =
                         [connectionsByRoom EXCEPT ![context.roomId] =
                             PeerMapSet(@, context.peerId, closing)]
                    /\ detached' = detached
               ELSE /\ connectionsByRoom' = connectionsByRoom
                    /\ detached' = BagAdd(BagRemove(detached, sock.c), closing)
       ELSE /\ UNCHANGED <<connectionsByRoom, detached>>
            /\ brokerOut' =
                 IF frame.parsed # "object"
                 THEN Out(sendSocketError(context, TRUE, "Malformed JSON payload.", clock))
                 ELSE IF ~frame.typeIsString
                 THEN Out(sendSocketError(context, TRUE, "Message type is required.", clock))
                 ELSE IF frame.type = "heartbeat"
                 THEN Out(sendSocketMessage(context, TRUE,
                            [type |-> "heartbeat", roomId |-> Some(context.roomId),
                             fromPeerId |-> Some("server"), toPeerId |-> Null,
                             payload |-> [ok |-> TRUE]], clock))
                 ELSE IF ~isRelayType(frame.type)
                 THEN Out(sendSocketError(context, TRUE,
                            "Unsupported signaling message type.", clock))
                 ELSE IF /\ frame.type = "chat"
                         /\ LET text == IF frame.payload.kind = "text"
                                        THEN frame.payload.text
                                        ELSE [len |-> 0, trimmedLen |-> 0]
                            IN text.trimmedLen = 0 \/ text.len > 500
                 THEN Out(sendSocketError(context, TRUE,
                            "Chat message must be between 1 and 500 characters.", clock))
                 ELSE LET target == frame.toPeerId IN
                      Out(relayMessage(connectionsByRoom, context.roomId, context.peerId,
                                       relayedFrame(context, frame, target), target, clock))
    /\ UNCHANGED <<clock, rooms, issuedRooms>>

\* The cleanup interval timer: evict expired rooms, tell and close their
\* registered sessions, forget their registrations.
RECURSIVE ExpireRooms(_, _, _, _)
ExpireRooms(cbr, det, roomIds, now) ==
    IF roomIds = {} THEN [connectionsByRoom |-> cbr, detached |-> det, sent |-> <<>>]
    ELSE LET roomId == CHOOSE x \in roomIds : \A y \in roomIds : x <= y
             entries == cbr[roomId]
             closing == [i \in 1..Len(entries) |->
                            [entries[i] EXCEPT !.readyState = "CLOSING"]]
             rest == ExpireRooms(MapDelete(cbr, roomId), BagAddAll(det, closing),
                                 roomIds \ {roomId}, now)
             RECURSIVE Errors(_)
             Errors(es) == IF es = <<>> THEN <<>>
                           ELSE sendSocketError(Head(es), FALSE, "Room expired.", now)
                                \o Errors(Tail(es))
         IN [connectionsByRoom |-> rest.connectionsByRoom, detached |-> rest.detached,
             sent |-> Errors(entries) \o rest.sent]

CleanupTimer ==
    LET r == cleanupExpired(rooms, clock)
        e == ExpireRooms(connectionsByRoom, detached,
                         r.removed \cap DOMAIN connectionsByRoom, clock)
    IN /\ rooms' = r.rooms
       /\ connectionsByRoom' = e.connectionsByRoom
       /\ detached' = e.detached
       /\ brokerOut' = [kind |-> "cleanup", removed |-> r.removed, sent |-> e.sent]
       /\ UNCHANGED <<clock, issuedRooms>>
       /\ UNCHANGED notBrokerVars

\* Upgrade requests: every join of a room named as minted, and one request
\* for each other way through the handler.
JoinRequest(allowed, path, roomId, peerId, role) ==
    [allowed |-> allowed, path |-> path, roomId |-> roomId, peerId |-> peerId,
     role |-> role]

UpgradeRequests ==
    {JoinRequest(TRUE, "/v1/ws", RoomIdText(roomId, "lower"), peerId, role) :
        roomId \in RoomIds, peerId \in PeerIds, role \in {"host", "guest"}}
    \cup {JoinRequest(FALSE, "/v1/ws", RoomIdText(1, "lower"), "a", "host"),
          JoinRequest(TRUE, "/v1/other", RoomIdText(1, "lower"), "a", "host"),
          JoinRequest(TRUE, "/v1/ws", RoomIdText(1, "malformed"), "a", "host"),
          JoinRequest(TRUE, "/v1/ws", RoomIdText(1, "upper"), "a", "host"),
          JoinRequest(TRUE, "/v1/ws", RoomIdText(1, "lower"), "a", "viewer")}

UpgradeStep(maxSockets) ==
    /\ \E q \in UpgradeRequests :
          Upgrade(maxSockets, q.allowed, q.path, q.roomId, q.peerId, q.role)
    /\ UNCHANGED notBrokerVars

CreateRoomStep ==
    /\ \E allowed \in BOOLEAN : CreateRoom(allowed)
    /\ UNCHANGED notBrokerVars

GetRoomStatusStep ==
    /\ \E allowed \in BOOLEAN, rawRoomId \in RoomIdTexts :
          GetRoomStatus(allowed, rawRoomId)
    /\ UNCHANGED notBrokerVars

SocketCloseStep ==
    /\ \E sock \in LiveSockets : SocketClose(sock)
    /\ UNCHANGED notBrokerVars

SocketErrorStep ==
    /\ \E sock \in LiveSockets : SocketError(sock)
    /\ UNCHANGED notBrokerVars

MessageStep ==
    /\ \E sock \in LiveSockets, frame \in Frames : Message(sock, frame)
    /\ UNCHANGED notBrokerVars

\* Typed frames a session sends one after another during negotiation.
NegotiationFrames ==
    {JsonFrame("offer", Null, FALSE, [kind |-> "other"]),
     JsonFrame("ice-candidate", Some("a"), FALSE, [kind |-> "other"]),
     JsonFrame("bye", Null, FALSE, [kind |-> "other"])}

\* ws.on("message"), with the history written: the frame as it arrived and,
\* in the order of the sends, every frame the handler passed to another
\* session.
MessageRelayedStep ==
    /\ Len(relayLog.arrived) < MaxArrivals
    /\ \E sock \in LiveSockets, frame \in NegotiationFrames :
          /\ Message(sock, frame)
          /\ LET relayed == SelectSeq(brokerOut'.sent, LAMBDA send : ~send.self) IN
             relayLog' =
                [arrived |-> Append(relayLog.arrived,
                                    [from |-> sock.c.peerId, type |-> frame.type]),
                 delivered |-> relayLog.delivered \o
                    [i \in 1..Len(relayed) |->
                        [from |-> ValueOf(relayed[i].msg.fromPeerId),
                         to |-> relayed[i].to.peerId,
                         type |-> relayed[i].msg.type]]]
    /\ UNCHANGED <<qualityVars, codecVars, callVars, laterVars>>

BrokerNext ==
    \/ Tick
    \/ CreateRoomStep
    \/ GetRoomStatusStep
    \/ UpgradeStep(MaxConns)
    \/ SocketCloseStep
    \/ SocketErrorStep
    \/ MessageStep
    \/ CleanupTimer

\* The broker with room for one more socket, at one instant of its clock.
BrokerCrowdNext ==
    \/ CreateRoomStep
    \/ GetRoomStatusStep
    \/ UpgradeStep(CrowdConns)
    \/ SocketCloseStep
    \/ SocketErrorStep
    \/ MessageStep
    \/ CleanupTimer


\* The broker at one instant, with the history of arrivals and relays.
BrokerRelayNext ==
    \/ CreateRoomStep
    \/ UpgradeStep(MaxConns)
    \/ SocketCloseStep
    \/ MessageRelayedStep
(***************************************************************************)
(* Offline signal-packet codec (src/lib/signalPacket.ts, signalCrypto.ts,  *)
(* base64.ts).  Strings that the code inspects are sequences of            *)
(* characters; byte strings are carried with their length and with what    *)
(* they encode, so that size limits and round trips are computed.          *)
(***************************************************************************)
SIGNAL_VERSION == "1"
TRANSPORT_CHUNK_CHAR_LIMIT == 900
PACKET_PREFIX == "P2PV1"
PACKET_TTL_MS == 600000
MAX_PACKET_TEXT_CHARS == 200000
MAX_CHUNK_COUNT == 256
MAX_COMPRESSED_BYTES == 120000
MAX_DECOMPRESSED_CHARS == 350000
\* crypto.getRandomValues(new Uint8Array(16)) and (12): salt and nonce sizes.
SALT_BYTES == 16
IV_BYTES == 12
\* The authentication tag AES-GCM appends to the ciphertext.
GCM_TAG_BYTES == 16
\* gzip's header and trailer around the DEFLATE stream.
GZIP_FRAME_BYTES == 18
\* JSON.stringify of an envelope: the characters that are keys and punctuation.
ENVELOPE_JSON_SYNTAX_CHARS == 123

\* Date.now() of the first packet made.
CodecEpoch == 1000
\* The instants of the codec's clock.
NowValues ==
    {CodecEpoch, CodecEpoch + 1, CodecEpoch + PACKET_TTL_MS - 1,
     CodecEpoch + PACKET_TTL_MS, CodecEpoch + PACKET_TTL_MS + 1}

\* A function call that returned a value, and one that threw an Error.
Returned(value) == [ok |-> TRUE, value |-> value]
Thrown(message) == [ok |-> FALSE, error |-> message]

\* ---- strings ----
Whitespace == {" "}

RoomCodeChars ==
    {"a","b","c","d","e","f","g","h","i","j","k","l","m","n","o","p","q","r","s","t",
     "u","v","w","x","y","z","A","B","C","D","E","F","G","H","I","J","K","L","M","N",
     "O","P","Q","R","S","T","U","V","W","X","Y","Z","0","1","2","3","4","5","6","7",
     "8","9","_","-"}

RECURSIVE TrimStart(_)
TrimStart(s) == IF s = <<>> \/ Head(s) \notin Whitespace THEN s ELSE TrimStart(Tail(s))

RECURSIVE TrimEnd(_)
TrimEnd(s) ==
    IF s = <<>> \/ s[Len(s)] \notin Whitespace THEN s
    ELSE TrimEnd(SubSeq(s, 1, Len(s) - 1))

\* String.prototype.trim
trim(s) == TrimEnd(TrimStart(s))

\* Length of the string form of a token of the protocol.
StrLen(s) ==
    CASE s = "1" -> 1
      [] s = "2" -> 1
      [] s = "host" -> 4
      [] s = "offer" -> 5
      [] s = "answer" -> 6
      [] s = "joiner" -> 6
      [] s = "P2PV1" -> 5
      [] OTHER -> 0

RECURSIVE Digits(_)
\* String(n).length for a non-negative integer.
Digits(n) == IF n < 10 THEN 1 ELSE 1 + Digits(n \div 10)

\* ---- base64.ts ----
\* btoa: four characters for every three bytes, the last group padded with
\* "=".  A base64 text is the bytes it spells, its length, the number of "="
\* at its end and whether all its other characters are in the alphabet.
bytesToBase64(bytes) ==
    [bytes |-> bytes, length |-> 4 * ((bytes.length + 2) \div 3),
     padding |-> (3 - (bytes.length % 3)) % 3, alphabet |-> TRUE]

\* atob: the padding is dropped from a text of whole groups; a "=" left
\* anywhere else, a character outside the alphabet or a last group of one
\* character throws; every four characters give three bytes.
base64ToBytes(base64) ==
    LET wholeGroups == base64.length % 4 = 0
        data == IF wholeGroups THEN base64.length - base64.padding ELSE base64.length
        count == (3 * data) \div 4
    IN IF \/ ~base64.alphabet
          \/ ~wholeGroups /\ base64.padding > 0
          \/ data % 4 = 1
       THEN Thrown("InvalidCharacterError")
       ELSE IF count = base64.bytes.length THEN Returned(base64.bytes)
       ELSE Returned([base64.bytes EXCEPT !.length = count])

\* btoa without the trailing "=" padding.
bytesToBase64Url(bytes) == [bytes |-> bytes, length |-> (4 * bytes.length + 2) \div 3]

\* ---- zod schemas ----
\* roomCodeSchema.parse: trim, then /^[a-zA-Z0-9_-]{4,48}$/.
roomCodeSchema(roomCode) ==
    LET clean == trim(roomCode) IN
    IF /\ Len(clean) >= 4
       /\ Len(clean) <= 48
       /\ \A i \in 1..Len(clean) : clean[i] \in RoomCodeChars
    THEN Returned(clean)
    ELSE Thrown("ZodError")

signalEnvelopeSchema(parsed) ==
    LET roomCode == roomCodeSchema(parsed.roomCode) IN
    IF /\ parsed.version = SIGNAL_VERSION
       /\ parsed.type \in {"offer", "answer"}
       /\ roomCode.ok
       /\ parsed.createdAt > 0
       /\ parsed.expiresAt > 0
       /\ parsed.saltB64.length >= 10
       /\ parsed.ivB64.length >= 10
       /\ parsed.ciphertextB64.length >= 10
       /\ parsed.senderRole \in {"host", "joiner"}
    THEN Returned([parsed EXCEPT !.roomCode = roomCode.value])
    ELSE Thrown("ZodError")

\* A payload is an offer or an answer of jsonBytes bytes of JSON.
offerPayloadSchema(payload) ==
    IF payload.kind = "offer" THEN Returned(payload) ELSE Thrown("ZodError")

answerPayloadSchema(payload) ==
    IF payload.kind = "answer" THEN Returned(payload) ELSE Thrown("ZodError")

\* ---- signalCrypto.ts ----
\* PBKDF2 over `${passphrase}:${roomCode}` and the salt.
deriveAesKey(passphrase, roomCode, salt) ==
    [material |-> passphrase \o <<":">> \o roomCode, salt |-> salt]

encryptJsonPayload(payload, passphrase, roomCode, additionalData, salt, iv) ==
    LET key == deriveAesKey(passphrase, roomCode, salt)
        plaintext == [json |-> payload, length |-> payload.jsonBytes]
        ciphertext == [key |-> key, iv |-> iv, additionalData |-> additionalData,
                       plaintext |-> plaintext, intact |-> TRUE,
                       length |-> plaintext.length + GCM_TAG_BYTES]
    IN [saltB64 |-> bytesToBase64([nonce |-> salt, length |-> SALT_BYTES]),
        ivB64 |-> bytesToBase64([nonce |-> iv, length |-> IV_BYTES]),
        ciphertextB64 |-> bytesToBase64(ciphertext)]

\* AES-GCM opens a ciphertext only under the key, nonce and associated data
\* it was sealed with, and only if no byte of it is missing or changed.  The
\* three atob calls come before the try block.
decryptJsonPayload(encryptedBlob, passphrase, roomCode, additionalData) ==
    LET salt == base64ToBytes(encryptedBlob.saltB64)
        iv == base64ToBytes(encryptedBlob.ivB64)
        ciphertext == base64ToBytes(encryptedBlob.ciphertextB64)
    IN IF ~salt.ok THEN salt
       ELSE IF ~iv.ok THEN iv
       ELSE IF ~ciphertext.ok THEN ciphertext
       ELSE LET key == deriveAesKey(passphrase, roomCode, salt.value.nonce) IN
            IF /\ key = ciphertext.value.key
               /\ iv.value.nonce = ciphertext.value.iv
               /\ additionalData = ciphertext.value.additionalData
               /\ ciphertext.value.intact
               /\ ciphertext.value.length
                     = ciphertext.value.plaintext.length + GCM_TAG_BYTES
            THEN Returned(ciphertext.value.plaintext.json)
            ELSE Thrown("DECRYPTION_FAILED")

\* ---- signalPacket.ts ----
\* The six fields joined by "|"; no field that passes the checks before
\* decryption contains "|", so the joined string determines the six fields.
buildEnvelopeAdditionalData(envelope) ==
    <<envelope.version, envelope.type, envelope.roomCode, envelope.createdAt,
      envelope.expiresAt, envelope.senderRole>>

validateEnvelopeTimeWindow(envelope) ==
    IF envelope.expiresAt <= envelope.createdAt
    THEN Thrown("Packet timestamps are invalid.")
    ELSE IF envelope.expiresAt - envelope.createdAt > PACKET_TTL_MS
    THEN Thrown("Packet lifetime is invalid.")
    ELSE Returned(TRUE)

\* A chunk line "P2PV1|<packetId>|<partIndex>/<partTotal>|<payload>"; the
\* payload is a slice of the encoded text.
serializeChunk(chunk) ==
    [prefix |-> PACKET_PREFIX, packetId |-> chunk.packetId,
     partIndex |-> chunk.partIndex, partTotal |-> chunk.partTotal,
     payload |-> chunk.payload]

LineLength(line) ==
    StrLen(line.prefix) + 1 + line.packetId.length + 1 + Digits(line.partIndex) + 1
        + Digits(line.partTotal) + 1 + line.payload.length

parseChunkLine(line) ==
    IF line.prefix # PACKET_PREFIX
    THEN Thrown("Invalid packet chunk format.")
    ELSE IF ~line.packetId.hex16
    THEN Thrown("Packet ID is invalid.")
    ELSE IF line.partIndex < 1 \/ line.partTotal < 1 \/ line.partIndex > line.partTotal
    THEN Thrown("Packet chunk index is out of range.")
    ELSE Returned([packetId |-> line.packetId, partIndex |-> line.partIndex,
                   partTotal |-> line.partTotal, payload |-> line.payload])

\* The slices [offset, offset + length) of a string of encodedLength characters.
splitPayloadIntoChunks(encodedLength) ==
    IF encodedLength > MAX_PACKET_TEXT_CHARS
    THEN Thrown("Packet is too large to share safely.")
    ELSE LET count == (encodedLength + TRANSPORT_CHUNK_CHAR_LIMIT - 1)
                          \div TRANSPORT_CHUNK_CHAR_LIMIT
             chunks == [i \in 1..count |->
                          LET offset == (i - 1) * TRANSPORT_CHUNK_CHAR_LIMIT IN
                          [offset |-> offset,
                           length |-> IF encodedLength - offset < TRANSPORT_CHUNK_CHAR_LIMIT
                                      THEN encodedLength - offset
                                      ELSE TRANSPORT_CHUNK_CHAR_LIMIT]]
         IN IF count > MAX_CHUNK_COUNT
            THEN Thrown("Packet has too many chunks.")
            ELSE Returned(chunks)

describeFailure(error) ==
    IF error = "DECRYPTION_FAILED" THEN [code |-> "PASS_PHRASE_MISMATCH"]
    ELSE IF error = "PACKET_EXPIRED" THEN [code |-> "EXPIRED_PACKET"]
    ELSE [code |-> "MEDIA_UNSUPPORTED"]

createSignalEnvelope(payload, passphrase, roomCode, type, senderRole, now, salt, iv) ==
    LET cleanRoomCode == roomCodeSchema(roomCode) IN
    IF ~cleanRoomCode.ok THEN cleanRoomCode
    ELSE LET envelopeMeta ==
                 [version |-> SIGNAL_VERSION, type |-> type,
                  roomCode |-> cleanRoomCode.value, createdAt |-> now,
                  expiresAt |-> now + PACKET_TTL_MS, senderRole |-> senderRole]
             encrypted == encryptJsonPayload(payload, passphrase, cleanRoomCode.value,
                              buildEnvelopeAdditionalData(envelopeMeta), salt, iv)
         IN Returned([version |-> envelopeMeta.version, type |-> envelopeMeta.type,
                      roomCode |-> envelopeMeta.roomCode,
                      createdAt |-> envelopeMeta.createdAt,
                      expiresAt |-> envelopeMeta.expiresAt,
                      saltB64 |-> encrypted.saltB64, ivB64 |-> encrypted.ivB64,
                      ciphertextB64 |-> encrypted.ciphertextB64,
                      senderRole |-> envelopeMeta.senderRole])

\* JSON.stringify(envelope), UTF-8 encoded: one byte per character.
JsonOfEnvelope(envelope) ==
    [json |-> envelope,
     length |-> ENVELOPE_JSON_SYNTAX_CHARS + StrLen(envelope.version)
                  + StrLen(envelope.type) + Len(envelope.roomCode)
                  + Digits(envelope.createdAt) + Digits(envelope.expiresAt)
                  + envelope.saltB64.length + envelope.ivB64.length
                  + envelope.ciphertextB64.length + StrLen(envelope.senderRole)]

\* pako gzip of the envelope's JSON.  The JSON is base64 text of ciphertext,
\* salt and nonce but for a few dozen characters: six bits of content in
\* every character, which DEFLATE's Huffman coding stores in six bits.
gzip(bytes) ==
    [gzipOf |-> Some(bytes), length |-> GZIP_FRAME_BYTES + (3 * bytes.length + 3) \div 4]

encodeEnvelopeForTransport(envelope, packetId) ==
    LET json == JsonOfEnvelope(envelope)
        compressedBytes == gzip(json)
        encoded == bytesToBase64Url(compressedBytes)
        payloadParts == splitPayloadIntoChunks(encoded.length)
    IN IF ~payloadParts.ok THEN payloadParts
       ELSE Returned(
              [encoded |-> encoded,
               lines |-> [index \in 1..Len(payloadParts.value) |->
                            serializeChunk([packetId |-> packetId, partIndex |-> index,
                                            partTotal |-> Len(payloadParts.value),
                                            payload |-> payloadParts.value[index]])]])

RECURSIVE SumLineLengths(_, _, _)
\* The lengths of lines first..last, added up.
SumLineLengths(lines, first, last) ==
    IF first > last THEN 0
    ELSE IF first = last THEN LineLength(lines[first])
    ELSE LET middle == (first + last) \div 2
         IN SumLineLengths(lines, first, middle) + SumLineLengths(lines, middle + 1, last)

\* input.length: the lines and the "\n" between them.
TextLength(text) ==
    IF Len(text.lines) = 0 THEN 0
    ELSE SumLineLengths(text.lines, 1, Len(text.lines)) + Len(text.lines) - 1

\* The first parseChunkLine that throws, if any.
FirstThrown(results) ==
    LET bad == {i \in 1..Len(results) : ~results[i].ok} IN
    IF bad = {} THEN Returned(TRUE)
    ELSE results[CHOOSE i \in bad : \A j \in bad : i <= j]

\* uniqueByIndex.size as it would be if the chunks were counted as they came.
ChunkCountWithRepeats(chunks) == Len(chunks)

\* uniqueByIndex.size
UniqueIndexCount(chunks) == Cardinality({chunks[i].partIndex : i \in 1..Len(chunks)})

\* uniqueByIndex sorted by partIndex, when it holds `total` chunks: every
\* partIndex is in 1..total, so these are the indexes 1..total, each with the
\* last chunk set for it.
OrderedUnique(chunks, total) ==
    [partIndex \in 1..total |->
        LET at == {i \in 1..Len(chunks) : chunks[i].partIndex = partIndex}
        IN chunks[CHOOSE i \in at : \A j \in at : j <= i]]

RECURSIVE SumPayloadLengths(_, _, _)
SumPayloadLengths(ordered, first, last) ==
    IF first > last THEN 0
    ELSE IF first = last THEN ordered[first].payload.length
    ELSE LET middle == (first + last) \div 2
         IN SumPayloadLengths(ordered, first, middle)
              + SumPayloadLengths(ordered, middle + 1, last)

\* base64UrlToBytes of the joined payloads: the bytes that were encoded when
\* the slices are the whole encoded text in order, other bytes otherwise.
JoinedBytes(text, ordered) ==
    LET whole ==
            /\ ordered[1].payload.offset = 0
            /\ \A i \in 1..(Len(ordered) - 1) :
                  ordered[i].payload.offset + ordered[i].payload.length
                      = ordered[i + 1].payload.offset
            /\ ordered[Len(ordered)].payload.offset + ordered[Len(ordered)].payload.length
                  = text.encoded.length
    IN IF whole THEN text.encoded.bytes
       ELSE [gzipOf |-> Null,
             length |-> (3 * SumPayloadLengths(ordered, 1, Len(ordered))) \div 4]

decodeEnvelopeFromTransport(text) ==
    IF TextLength(text) > MAX_PACKET_TEXT_CHARS
    THEN Thrown("Packet text is too large.")
    ELSE LET lines == text.lines IN
    IF Len(lines) = 0 THEN Thrown("No packet data was found.")
    ELSE IF Len(lines) > MAX_CHUNK_COUNT THEN Thrown("Packet has too many chunks.")
    ELSE LET results == [i \in 1..Len(lines) |-> parseChunkLine(lines[i])] IN
    IF ~FirstThrown(results).ok THEN FirstThrown(results)
    ELSE LET chunks == [i \in 1..Len(lines) |-> results[i].value]
             packetId == chunks[1].packetId
             total == chunks[1].partTotal
         IN
    IF \E i \in 1..Len(chunks) :
          chunks[i].packetId # packetId \/ chunks[i].partTotal # total
    THEN Thrown("Packet chunks do not belong together.")
    ELSE IF UniqueIndexCount(chunks) # total
    THEN Thrown("Packet is missing one or more chunks.")
    ELSE LET ordered == OrderedUnique(chunks, total)
             compressedBytes == JoinedBytes(text, ordered)
         IN
    IF compressedBytes.length > MAX_COMPRESSED_BYTES
    THEN Thrown("Packet payload is too large.")
    ELSE IF compressedBytes.gzipOf = Null THEN Thrown("incorrect header check")
    ELSE LET decompressed == ValueOf(compressedBytes.gzipOf) IN
    IF decompressed.length > MAX_DECOMPRESSED_CHARS
    THEN Thrown("Packet decompressed payload is too large.")
    ELSE LET envelope == signalEnvelopeSchema(decompressed.json) IN
    IF ~envelope.ok THEN envelope
    ELSE IF ~validateEnvelopeTimeWindow(envelope.value).ok
    THEN validateEnvelopeTimeWindow(envelope.value)
    ELSE envelope

\* ensureEnvelopeUsable as it would be if it rejected at the instant of expiry.
EnsureEnvelopeUsableAtExpiry(envelope, roomCode, now) ==
    LET cleanRoomCode == roomCodeSchema(roomCode) IN
    IF ~cleanRoomCode.ok THEN cleanRoomCode
    ELSE IF envelope.roomCode # cleanRoomCode.value
    THEN Thrown("This packet does not belong to this room code.")
    ELSE IF ~validateEnvelopeTimeWindow(envelope).ok
    THEN validateEnvelopeTimeWindow(envelope)
    ELSE IF now >= envelope.expiresAt THEN Thrown("PACKET_EXPIRED")
    ELSE cleanRoomCode

ensureEnvelopeUsable(envelope, roomCode, now) ==
    LET cleanRoomCode == roomCodeSchema(roomCode) IN
    IF ~cleanRoomCode.ok THEN cleanRoomCode
    ELSE IF envelope.roomCode # cleanRoomCode.value
    THEN Thrown("This packet does not belong to this room code.")
    ELSE IF ~validateEnvelopeTimeWindow(envelope).ok
    THEN validateEnvelopeTimeWindow(envelope)
    ELSE IF now > envelope.expiresAt THEN Thrown("PACKET_EXPIRED")
    ELSE cleanRoomCode

decryptOfferEnvelope(envelope, roomCode, passphrase, now) ==
    LET cleanRoomCode == ensureEnvelopeUsable(envelope, roomCode, now) IN
    IF ~cleanRoomCode.ok THEN cleanRoomCode
    ELSE IF envelope.type # "offer" THEN Thrown("Expected an offer packet.")
    ELSE IF envelope.senderRole # "host" THEN Thrown("Offer packet role is invalid.")
    ELSE LET payload == decryptJsonPayload(envelope, passphrase, cleanRoomCode.value,
                                           buildEnvelopeAdditionalData(envelope))
         IN IF ~payload.ok THEN payload ELSE offerPayloadSchema(payload.value)

decryptAnswerEnvelope(envelope, roomCode, passphrase, now) ==
    LET cleanRoomCode == ensureEnvelopeUsable(envelope, roomCode, now) IN
    IF ~cleanRoomCode.ok THEN cleanRoomCode
    ELSE IF envelope.type # "answer" THEN Thrown("Expected an answer packet.")
    ELSE IF envelope.senderRole # "joiner" THEN Thrown("Answer packet role is invalid.")
    ELSE LET payload == decryptJsonPayload(envelope, passphrase, cleanRoomCode.value,
                                           buildEnvelopeAdditionalData(envelope))
         IN IF ~payload.ok THEN payload ELSE answerPayloadSchema(payload.value)

\* ---- inputs ----
\* JSON sizes of schema-valid payloads: a short session description, and
\* descriptions with long candidate lists.
SmallPayloadBytes == 400
LargePayloadBytes == 119000
HugePayloadBytes == 125000
OversizePayloadBytes == 160000

Payload(kind, jsonBytes) ==
    [kind |-> kind, sessionId |-> "session-123", jsonBytes |-> jsonBytes]

RoomCode1 == <<"r", "o", "o", "m", "-", "1">>
RoomCode2 == <<"r", "o", "o", "m", "-", "2">>
PaddedRoomCode1 == RoomCode1 \o <<" ">>
ShortRoomCode == <<"r", "1">>

PassOne == <<"p", "a", "s", "s", "-", "o", "n", "e">>
PassTwo == <<"p", "a", "s", "s", "-", "t", "w", "o">>

PacketId1 == [hex |-> "00112233aabbccdd", hex16 |-> TRUE, length |-> 16]

\* The authenticated fields and the values a single change can give them.
TamperedValues(envelope, field) ==
    CASE field = "version" -> {"2"}
      [] field = "type" -> {"offer", "answer"} \ {envelope.type}
      [] field = "roomCode" -> {RoomCode2, PaddedRoomCode1} \ {envelope.roomCode}
      [] field = "createdAt" -> {envelope.createdAt + 1, envelope.createdAt - 1}
      [] field = "expiresAt" -> {envelope.expiresAt + 1, envelope.expiresAt - 1}
      [] field = "senderRole" -> {"host", "joiner"} \ {envelope.senderRole}

AuthenticatedFields ==
    {"version", "type", "roomCode", "createdAt", "expiresAt", "senderRole"}

SetField(envelope, field, value) ==
    CASE field = "version" -> [envelope EXCEPT !.version = value]
      [] field = "type" -> [envelope EXCEPT !.type = value]
      [] field = "roomCode" -> [envelope EXCEPT !.roomCode = value]
      [] field = "createdAt" -> [envelope EXCEPT !.createdAt = value]
      [] field = "expiresAt" -> [envelope EXCEPT !.expiresAt = value]
      [] field = "senderRole" -> [envelope EXCEPT !.senderRole = value]

\* ---- the life of one packet ----
IdlePacket ==
    [stage |-> "idle", input |-> Null, original |-> Null, tampered |-> "none",
     envelope |-> Null, text |-> Null, error |-> Null, decrypt |-> Null]

CodecInit ==
    /\ codecNow = CodecEpoch
    /\ packet = IdlePacket

\* Date.now() moves on.
AdvanceClock ==
    /\ \E later \in NowValues : later > codecNow /\ codecNow' = later
    /\ UNCHANGED packet
    /\ UNCHANGED notCodecVars

CreateEnvelope(payload, passphrase, roomCode, type, senderRole) ==
    /\ packet.stage = "idle"
    /\ LET input == [payload |-> payload, passphrase |-> passphrase,
                     roomCode |-> roomCode, type |-> type, senderRole |-> senderRole]
           made == createSignalEnvelope(payload, passphrase, roomCode, type, senderRole,
                                        codecNow, "salt-1", "iv-1")
       IN packet' =
            IF made.ok
            THEN [packet EXCEPT !.stage = "created", !.input = Some(input),
                                !.original = Some(made.value),
                                !.envelope = Some(made.value)]
            ELSE [packet EXCEPT !.stage = "createFailed", !.input = Some(input),
                                !.error = Some(made.error)]
    /\ UNCHANGED codecNow

\* One authenticated field of the envelope is changed before it is sent.
Tamper(field, value) ==
    /\ packet.stage = "created"
    /\ packet.tampered = "none"
    /\ value \in TamperedValues(ValueOf(packet.envelope), field)
    /\ packet' = [packet EXCEPT !.tampered = field,
                                !.envelope = Some(SetField(ValueOf(packet.envelope),
                                                           field, value))]
    /\ UNCHANGED codecNow

Encode ==
    /\ packet.stage = "created"
    /\ LET text == encodeEnvelopeForTransport(ValueOf(packet.envelope), PacketId1) IN
       packet' = IF text.ok
                 THEN [packet EXCEPT !.stage = "encoded", !.text = Some(text.value)]
                 ELSE [packet EXCEPT !.stage = "encodeFailed", !.error = Some(text.error)]
    /\ UNCHANGED codecNow
    /\ UNCHANGED notCodecVars

Decode ==
    /\ packet.stage = "encoded"
    /\ LET decoded == decodeEnvelopeFromTransport(ValueOf(packet.text)) IN
       packet' = IF decoded.ok
                 THEN [packet EXCEPT !.stage = "decoded", !.envelope = Some(decoded.value)]
                 ELSE [packet EXCEPT !.stage = "decodeFailed",
                                     !.error = Some(decoded.error)]
    /\ UNCHANGED codecNow
    /\ UNCHANGED notCodecVars

\* decryptOfferEnvelope / decryptAnswerEnvelope on the envelope decoded from
\* the transport text.
Decrypt(as, roomCode, passphrase) ==
    /\ packet.stage = "decoded"
    /\ LET envelope == ValueOf(packet.envelope)
           result == IF as = "offer"
                     THEN decryptOfferEnvelope(envelope, roomCode, passphrase, codecNow)
                     ELSE decryptAnswerEnvelope(envelope, roomCode, passphrase, codecNow)
       IN packet' = [packet EXCEPT
                       !.stage = "decrypted",
                       !.decrypt = Some([as |-> as, roomCode |-> roomCode,
                                         passphrase |-> passphrase, now |-> codecNow,
                                         result |-> result])]
    /\ UNCHANGED codecNow

\* Calls of createSignalEnvelope: short payloads of either kind under every
\* room code, type and role, and long offers from the host.
CreateInputs ==
    {[payload |-> Payload(kind, SmallPayloadBytes), roomCode |-> roomCode,
      type |-> type, senderRole |-> senderRole] :
        kind \in {"offer", "answer"},
        roomCode \in {RoomCode1, PaddedRoomCode1, ShortRoomCode},
        type \in {"offer", "answer"}, senderRole \in {"host", "joiner"}}
    \cup {[payload |-> Payload("offer", jsonBytes), roomCode |-> RoomCode1,
           type |-> "offer", senderRole |-> "host"] :
             jsonBytes \in {LargePayloadBytes, HugePayloadBytes, OversizePayloadBytes}}

CreateEnvelopeStep ==
    /\ \E in \in CreateInputs :
          CreateEnvelope(in.payload, PassOne, in.roomCode, in.type, in.senderRole)
    /\ UNCHANGED notCodecVars

TamperStep ==
    /\ packet.stage = "created"
    /\ \E field \in AuthenticatedFields :
          \E value \in TamperedValues(ValueOf(packet.envelope), field) :
              Tamper(field, value)
    /\ UNCHANGED notCodecVars

DecryptStep ==
    /\ \E as \in {"offer", "answer"},
          roomCode \in {RoomCode1, RoomCode2, PaddedRoomCode1},
          passphrase \in {PassOne, PassTwo} :
            Decrypt(as, roomCode, passphrase)
    /\ UNCHANGED notCodecVars

CodecNext ==
    \/ AdvanceClock
    \/ CreateEnvelopeStep
    \/ TamperStep
    \/ Encode
    \/ Decode
    \/ DecryptStep


(***************************************************************************)
(* Call controller: WebRtcCallManager (src/lib/webrtcCallManager.ts).      *)
(* Time is kept as the milliseconds left on each armed timer and the       *)
(* milliseconds elapsed since the events the properties speak of.  A timer *)
(* that is due runs before time moves on; events of the same instant run   *)
(* in any order.                                                           *)
(* An await is one suspension: the step that resumes it runs the code up   *)
(* to the next await, and the code after a resolved promise runs in the    *)
(* step that resolved it (microtask).                                      *)
(***************************************************************************)
STATS_INTERVAL_MS == 1000
CONNECTION_TIMEOUT_MS == 25000
ICE_GATHER_MAX_WAIT_MS == 1500
ICE_GATHER_SETTLE_MS == 250
PROFILE_RECOVERY_ORDER == <<SD_480, HD_720, HD_1080>>

\* Bounds of the exploration.
EventGapMs == 5000       \* time moves to the next timer or by this much
MaxCandidates == 1       \* candidates gathered in one attempt
GatherGapMs == 200       \* the same two while the candidates are gathered
MaxGatherCandidates == 8
MaxAttempts == 2         \* calls of createOfferPayload / acceptOfferAndCreateAnswer
MaxTimers == 3           \* handles of one kind in use at the same time

\* ---- window.setTimeout / setInterval / clearTimeout ----
\* A timer is [kind, n, due], due in `due` milliseconds; its handle is
\* [kind, n].  A new timer gets a handle that no armed timer has and no
\* field still holds.
HandleOf(timer) == [kind |-> timer.kind, n |-> timer.n]

setTimeout(table, held, kind, delay) ==
    LET used == {HandleOf(t) : t \in table} \cup held
        n == CHOOSE k \in 0..MaxTimers :
                /\ [kind |-> kind, n |-> k] \notin used
                /\ \A j \in 0..(k - 1) : [kind |-> kind, n |-> j] \in used
    IN [timers |-> table \cup {[kind |-> kind, n |-> n, due |-> delay]},
        handle |-> [kind |-> kind, n |-> n]]

clearTimeout(table, handle) == {t \in table : HandleOf(t) # handle}

\* Handles held by the controller's fields and by the closure of the wait.
HeldHandles == connectWatchdog \cup statsTimer \cup iceWait.settleTimer \cup iceWait.timeout

DueTimers(kind) == {t \in timers : t.kind = kind /\ t.due = 0}

\* ---- connect watchdog ----
\* clearConnectWatchdog() that forgets to cancel.
ClearConnectWatchdogKeepingTimer(table, field) ==
    [timers |-> table, connectWatchdog |-> Null]

\* clearConnectWatchdog()
clearConnectWatchdog(table, field) ==
    IF field # Null
    THEN [timers |-> clearTimeout(table, ValueOf(field)), connectWatchdog |-> Null]
    ELSE [timers |-> table, connectWatchdog |-> field]

\* startConnectWatchdog()
startConnectWatchdog(table, field, held) ==
    LET cleared == clearConnectWatchdog(table, field)
        armed == setTimeout(cleared.timers, held, "connectWatchdog",
                            CONNECTION_TIMEOUT_MS)
    IN [timers |-> armed.timers, connectWatchdog |-> Some(armed.handle)]

\* ---- waitForIceGatheringComplete ----
\* The closure's variables, and for the properties: the milliseconds since
\* the wait began and since its last candidate event (both stop when the
\* promise resolves), how often resolve() was called and by which path.
IdleWait ==
    [active |-> FALSE, done |-> FALSE, settleTimer |-> Null, timeout |-> Null,
     listeners |-> FALSE, elapsed |-> 0, sinceEvent |-> 0,
     resolved |-> 0, resolvedBy |-> "nothing"]

\* settleSoon() that arms only the first settle timer and never re-arms it.
SettleSoonOnce(table, wait, held) ==
    IF wait.settleTimer # Null
    THEN [timers |-> table, iceWait |-> wait]
    ELSE LET armed == setTimeout(table, held, "iceSettle", ICE_GATHER_SETTLE_MS) IN
         [timers |-> armed.timers,
          iceWait |-> [wait EXCEPT !.settleTimer = Some(armed.handle)]]

\* settleSoon(): re-arms the settle timer.
settleSoon(table, wait, held) ==
    LET cleared == IF wait.settleTimer # Null
                   THEN clearTimeout(table, ValueOf(wait.settleTimer))
                   ELSE table
        armed == setTimeout(cleared, held, "iceSettle", ICE_GATHER_SETTLE_MS)
    IN [timers |-> armed.timers,
        iceWait |-> [wait EXCEPT !.settleTimer = Some(armed.handle)]]

\* cleanup(): both timers cleared, both listeners removed.
cleanup(table, wait) ==
    LET noTimeout == IF wait.timeout # Null
                     THEN clearTimeout(table, ValueOf(wait.timeout))
                     ELSE table
        noSettle == IF wait.settleTimer # Null
                    THEN clearTimeout(noTimeout, ValueOf(wait.settleTimer))
                    ELSE noTimeout
    IN [timers |-> noSettle,
        iceWait |-> [wait EXCEPT !.settleTimer = Null, !.listeners = FALSE]]

\* finalize(), called for the reason `by`.
finalize(table, wait, by) ==
    IF wait.done
    THEN [timers |-> table, iceWait |-> wait]
    ELSE LET cleaned == cleanup(table, [wait EXCEPT !.done = TRUE]) IN
         [timers |-> cleaned.timers,
          iceWait |-> [cleaned.iceWait EXCEPT !.resolved = @ + 1,
                                              !.resolvedBy = by]]

\* The promise executor of waitForIceGatheringComplete: timeout armed,
\* listeners added, settleSoon() called.
startWait(table, held) ==
    LET armed == setTimeout(table, held, "iceTimeout", ICE_GATHER_MAX_WAIT_MS)
        fresh == [IdleWait EXCEPT !.active = TRUE, !.timeout = Some(armed.handle),
                                  !.listeners = TRUE]
    IN settleSoon(armed.timers, fresh, held \cup {armed.handle})

\* ---- the controller and its environment ----
Min(a, b) == IF a <= b THEN a ELSE b

Roles == {"host", "joiner"}

\* The awaits of createOfferPayload and of acceptOfferAndCreateAnswer, in order.
Awaits(name) ==
    IF name = "createOfferPayload"
    THEN <<"createOffer", "setLocalDescription">>
    ELSE <<"setRemoteDescription", "addIceCandidate", "createAnswer", "setLocalDescription">>

AwaitIndex(name, at) == CHOOSE i \in 1..Len(Awaits(name)) : Awaits(name)[i] = at

IsAwait(name, at) == \E i \in 1..Len(Awaits(name)) : Awaits(name)[i] = at

\* Samples collectStatsSample can return: one bad, one good.
CallSnapshots ==
    {[packetLossPct |-> BAD_PACKET_LOSS_PCT, rttMs |-> GOOD_RTT_MS, jitterMs |-> GOOD_JITTER_MS]}

\* RTCPeerConnection.connectionState as the transport moves it.
ConnectionStateSuccessors(state) ==
    CASE state = "new" -> {"connecting"}
      [] state = "connecting" -> {"connected", "failed"}
      [] state = "connected" -> {"disconnected"}
      [] state = "disconnected" -> {"connected", "failed"}
      [] OTHER -> {}

IsClosed == peerConnection.connectionState = "closed"

\* setLocalDescription has resolved in the running or in an earlier attempt.
HasLocalDescription ==
    \/ pendingOp.at \in {"waitForIceGatheringComplete", "returned"}
    \/ pendingOp.attempts > 1

IdleTick == [at |-> "idle", profile |-> HD_1080]

\* The history: close() has returned, what the controller produced after
\* that, the failures reported, and the milliseconds since the method that
\* armed the watchdog returned (null once the attempt is over: connected
\* seen, watchdog run, or closed).
NoTrace ==
    [closed |-> FALSE, afterClose |-> {}, reports |-> {}, armedFor |-> Null]

\* What a step that produced `outs` after close() adds to the history.
AfterClose(trace, outs) ==
    IF trace.closed THEN [trace EXCEPT !.afterClose = @ \cup outs] ELSE trace

\* No controller made yet; the fields have their initialisers' values.
CallInit ==
    /\ peerConnection = [connectionState |-> "new", iceGatheringState |-> "new"]
    /\ channels = [role |-> "none", chat |-> "none", diag |-> "none"]
    /\ sessionId = "own"
    /\ activeQuality = HD_1080
    /\ statsTimer = Null
    /\ connectWatchdog = Null
    /\ localIceCandidates = 0
    /\ timers = {}
    /\ pendingOp = [name |-> "none", at |-> "idle", attempts |-> 0]
    /\ iceWait = IdleWait
    /\ statsTick = IdleTick
    /\ callOut = {}
    /\ callTrace = NoTrace

\* finalize() for the reason `by` and, when it resolved the promise, the rest
\* of the suspended method: startConnectWatchdog() and the return.
Resolve(table, wait, by) ==
    LET f == finalize(table, wait, by)
        resumed == f.iceWait.resolved # wait.resolved
        w == IF resumed
             THEN startConnectWatchdog(f.timers, connectWatchdog, HeldHandles)
             ELSE [timers |-> f.timers, connectWatchdog |-> connectWatchdog]
    IN [timers |-> w.timers, iceWait |-> f.iceWait,
        connectWatchdog |-> w.connectWatchdog, resumed |-> resumed]

MethodReturned(trace) ==
    AfterClose([trace EXCEPT !.armedFor = Some(0)],
               {"timer armed"})

ApplyResolve(r) ==
    /\ timers' = r.timers
    /\ iceWait' = r.iceWait
    /\ connectWatchdog' = r.connectWatchdog
    /\ pendingOp' = IF r.resumed THEN [pendingOp EXCEPT !.at = "returned"] ELSE pendingOp
    /\ callTrace' = IF r.resumed THEN MethodReturned(callTrace) ELSE callTrace

\* createHost(localStream, callbacks) / createJoiner(localStream, callbacks):
\* the host makes its data channels, the joiner waits for ondatachannel.
CreateController(role) ==
    /\ channels.role = "none"
    /\ channels' = IF role = "host"
                   THEN [role |-> role, chat |-> "connecting", diag |-> "connecting"]
                   ELSE [role |-> role, chat |-> "none", diag |-> "none"]
    /\ callOut' = {}
    /\ UNCHANGED <<peerConnection, sessionId, activeQuality, statsTimer,
                   connectWatchdog, localIceCandidates, timers, pendingOp, iceWait,
                   statsTick, callTrace>>
    /\ UNCHANGED <<qualityVars, notCallVars>>

\* Time moves on to the next due timer or by `gap`, never past a timer.
\* The stopwatches of a pending wait run; those of a resolved wait, read at
\* the instant it resolved, are reset.
CallAdvanceTime(gap) ==
    /\ channels.role # "none"
    /\ \E d \in {gap} \cup {x.due : x \in timers} :
          /\ d > 0
          /\ \A x \in timers : d <= x.due
          /\ timers' = {[x EXCEPT !.due = @ - d] : x \in timers}
          /\ iceWait' = IF iceWait.active /\ ~iceWait.done
                        THEN [iceWait EXCEPT !.elapsed = @ + d, !.sinceEvent = @ + d]
                        ELSE [iceWait EXCEPT !.elapsed = 0, !.sinceEvent = 0,
                                             !.resolvedBy = "nothing"]
          /\ callTrace' = IF callTrace.armedFor # Null
                          THEN [callTrace EXCEPT !.armedFor = Some(ValueOf(@) + d)]
                          ELSE callTrace
    /\ callOut' = {}
    /\ UNCHANGED <<peerConnection, channels, sessionId, activeQuality, statsTimer,
                   connectWatchdog, localIceCandidates, pendingOp,
                   statsTick>>
    /\ UNCHANGED <<qualityVars, notCallVars>>

\* createOfferPayload(), up to its first await.
CreateOfferPayload ==
    /\ channels.role = "host"
    /\ pendingOp.at \in {"idle", "returned", "rejected"}
    /\ pendingOp.attempts < MaxAttempts
    /\ localIceCandidates' = 0
    /\ pendingOp' = [name |-> "createOfferPayload", at |-> "createOffer",
                     attempts |-> pendingOp.attempts + 1]
    /\ callOut' = {}
    /\ UNCHANGED <<peerConnection, channels, sessionId, activeQuality, statsTimer,
                   connectWatchdog, timers, iceWait, statsTick, callTrace>>
    /\ UNCHANGED <<qualityVars, notCallVars>>

\* acceptOfferAndCreateAnswer(offer), up to its first await.
AcceptOfferAndCreateAnswer ==
    /\ channels.role = "joiner"
    /\ pendingOp.at \in {"idle", "returned", "rejected"}
    /\ pendingOp.attempts < MaxAttempts
    /\ sessionId' = "offer"
    /\ pendingOp' = [name |-> "acceptOfferAndCreateAnswer", at |-> "setRemoteDescription",
                     attempts |-> pendingOp.attempts + 1]
    /\ callOut' = {}
    /\ UNCHANGED <<peerConnection, channels, activeQuality, statsTimer,
                   connectWatchdog, localIceCandidates, timers, iceWait, statsTick, callTrace>>
    /\ UNCHANGED <<qualityVars, notCallVars>>

\* The promise the method is suspended on settles.  On a closed connection it
\* rejects: the method throws, except in the try/catch around addIceCandidate.
\* After setLocalDescription the method calls waitForIceGatheringComplete().
AwaitSettles ==
    LET name == pendingOp.name
        i == AwaitIndex(name, pendingOp.at)
        last == i = Len(Awaits(name))
    IN
    /\ IsAwait(name, pendingOp.at)
    /\ callOut' = {}
    /\ IF IsClosed /\ pendingOp.at # "addIceCandidate"
       THEN /\ pendingOp' = [pendingOp EXCEPT !.at = "rejected"]
            /\ UNCHANGED <<localIceCandidates, timers, iceWait, connectWatchdog, callTrace>>
       ELSE IF ~last
       THEN /\ pendingOp' = [pendingOp EXCEPT !.at = Awaits(name)[i + 1]]
            /\ localIceCandidates' = IF pendingOp.at = "addIceCandidate"
                                     THEN 0 ELSE localIceCandidates
            /\ UNCHANGED <<timers, iceWait, connectWatchdog, callTrace>>
       ELSE IF peerConnection.iceGatheringState = "complete"
       THEN LET w == startConnectWatchdog(timers, connectWatchdog, HeldHandles) IN
            /\ timers' = w.timers
            /\ connectWatchdog' = w.connectWatchdog
            /\ pendingOp' = [pendingOp EXCEPT !.at = "returned"]
            /\ callTrace' = MethodReturned(callTrace)
            /\ iceWait' = [IdleWait EXCEPT !.done = TRUE, !.resolved = 1,
                                           !.resolvedBy = "already complete"]
            /\ UNCHANGED localIceCandidates
       ELSE LET s == startWait(timers, HeldHandles) IN
            /\ timers' = s.timers
            /\ iceWait' = s.iceWait
            /\ pendingOp' = [pendingOp EXCEPT !.at = "waitForIceGatheringComplete"]
            /\ UNCHANGED <<localIceCandidates, connectWatchdog, callTrace>>
    /\ UNCHANGED <<peerConnection, channels, sessionId, activeQuality, statsTimer,
                   statsTick>>
    /\ UNCHANGED <<qualityVars, notCallVars>>

\* The transport moves iceGatheringState and fires icegatheringstatechange:
\* gatheringListener.
IceGatheringStateChange ==
    /\ ~IsClosed
    /\ HasLocalDescription
    /\ peerConnection.iceGatheringState \in {"new", "gathering"}
    /\ LET next == IF peerConnection.iceGatheringState = "new"
                   THEN "gathering" ELSE "complete"
           r == IF iceWait.listeners /\ next = "complete"
                THEN Resolve(timers, iceWait, "complete")
                ELSE [timers |-> timers, iceWait |-> iceWait,
                      connectWatchdog |-> connectWatchdog, resumed |-> FALSE]
       IN /\ peerConnection' = [peerConnection EXCEPT !.iceGatheringState = next]
          /\ ApplyResolve(r)
    /\ callOut' = {}
    /\ UNCHANGED <<channels, sessionId, activeQuality, statsTimer,
                   localIceCandidates, statsTick>>
    /\ UNCHANGED <<qualityVars, notCallVars>>

\* icecandidate with a candidate, or with null at the end of gathering:
\* onicecandidate and candidateListener.
IceCandidate(isNull, maxCandidates) ==
    /\ ~IsClosed
    /\ peerConnection.iceGatheringState = "gathering"
    /\ ~isNull => localIceCandidates < maxCandidates
    /\ localIceCandidates' = IF isNull THEN localIceCandidates ELSE localIceCandidates + 1
    /\ LET r == IF ~iceWait.listeners
                THEN [timers |-> timers, iceWait |-> iceWait,
                      connectWatchdog |-> connectWatchdog, resumed |-> FALSE]
                ELSE IF isNull
                THEN Resolve(timers, iceWait, "null candidate")
                ELSE LET s == settleSoon(timers, iceWait, HeldHandles) IN
                     [timers |-> s.timers,
                      iceWait |-> [s.iceWait EXCEPT !.sinceEvent = 0],
                      connectWatchdog |-> connectWatchdog, resumed |-> FALSE]
       IN ApplyResolve(r)
    /\ callOut' = {}
    /\ UNCHANGED <<peerConnection, channels, sessionId, activeQuality, statsTimer,
                   statsTick>>
    /\ UNCHANGED <<qualityVars, notCallVars>>

\* The timeout or the settle timer of the wait is due: finalize.
IceTimerFires ==
    /\ \E t \in DueTimers("iceTimeout") \cup DueTimers("iceSettle") :
          ApplyResolve(Resolve(timers \ {t}, iceWait,
                               IF t.kind = "iceTimeout" THEN "timeout" ELSE "settle"))
    /\ callOut' = {}
    /\ UNCHANGED <<peerConnection, channels, sessionId, activeQuality, statsTimer,
                   localIceCandidates, statsTick>>
    /\ UNCHANGED <<qualityVars, notCallVars>>

\* startStatsLoop()
\* startStatsLoop(); the applyQualityProfile() it leaves running configures
\* the video sender and touches no field of the controller.
startStatsLoop(table, field, held) ==
    IF field # Null
    THEN [timers |-> table, statsTimer |-> field]
    ELSE LET armed == setTimeout(table, held, "stats", STATS_INTERVAL_MS) IN
         [timers |-> armed.timers, statsTimer |-> Some(armed.handle)]

\* onconnectionstatechange
ConnectionStateChange(state) ==
    /\ ~IsClosed
    /\ HasLocalDescription
    /\ state \in ConnectionStateSuccessors(peerConnection.connectionState)
    /\ peerConnection' = [peerConnection EXCEPT !.connectionState = state]
    /\ IF state = "connected"
       THEN LET c == clearConnectWatchdog(timers, connectWatchdog)
                s == startStatsLoop(c.timers, statsTimer, HeldHandles)
            IN /\ connectWatchdog' = c.connectWatchdog
               /\ timers' = s.timers
               /\ statsTimer' = s.statsTimer
               /\ callTrace' = [callTrace EXCEPT !.armedFor = Null]
               /\ callOut' = {"onConnectionStateChange"}
       ELSE /\ UNCHANGED <<connectWatchdog, timers, statsTimer>>
            /\ callTrace' = IF state = "failed"
                            THEN [callTrace EXCEPT !.reports =
                                     @ \cup {[code |-> "NAT_BLOCKED", armedFor |-> Null]}]
                            ELSE callTrace
            /\ callOut' = IF state = "failed"
                          THEN {"onConnectionStateChange", "onFailure"}
                          ELSE {"onConnectionStateChange"}
    /\ UNCHANGED <<channels, sessionId, activeQuality, localIceCandidates,
                   pendingOp, iceWait, statsTick>>
    /\ UNCHANGED <<qualityVars, notCallVars>>

\* The data channels open once the peers are connected (for the joiner:
\* ondatachannel hands them over first).
ChannelsOpen ==
    /\ ~IsClosed
    /\ peerConnection.connectionState = "connected"
    /\ channels.chat # "open"
    /\ channels' = [channels EXCEPT !.chat = "open", !.diag = "open"]
    /\ callOut' = {}
    /\ UNCHANGED <<peerConnection, sessionId, activeQuality, statsTimer,
                   connectWatchdog, localIceCandidates, timers, pendingOp, iceWait,
                   statsTick, callTrace>>
    /\ UNCHANGED <<qualityVars, notCallVars>>

\* The connect watchdog is due: its callback.
WatchdogFires ==
    /\ \E t \in DueTimers("connectWatchdog") :
          /\ timers' = timers \ {t}
          /\ IF peerConnection.connectionState = "connected"
             THEN /\ callOut' = {"connectWatchdog"}
                  /\ callTrace' = [callTrace EXCEPT !.armedFor = Null]
             ELSE /\ callOut' = {"connectWatchdog", "onFailure"}
                  /\ callTrace' = AfterClose(
                        [callTrace EXCEPT !.armedFor = Null,
                                          !.reports =
                            @ \cup {[code |-> "CONNECTION_TIMEOUT",
                                     armedFor |-> callTrace.armedFor]}],
                        {"failure report"})
    /\ UNCHANGED <<peerConnection, channels, sessionId, activeQuality, statsTimer,
                   connectWatchdog, localIceCandidates, pendingOp, iceWait,
                   statsTick>>
    /\ UNCHANGED <<qualityVars, notCallVars>>

\* The stats interval is due: collectAndBroadcastStats() up to await
\* getStats().  A tick starts when the one before it has finished.
StatsTimerFires ==
    /\ statsTick.at = "idle"
    /\ \E t \in DueTimers("stats") :
          timers' = (timers \ {t}) \cup {[t EXCEPT !.due = STATS_INTERVAL_MS]}
    /\ statsTick' = [statsTick EXCEPT !.at = "getStats"]
    /\ callOut' = {}
    /\ UNCHANGED <<peerConnection, channels, sessionId, activeQuality, statsTimer,
                   connectWatchdog, localIceCandidates, pendingOp, iceWait, callTrace>>
    /\ UNCHANGED <<qualityVars, notCallVars>>

\* Index in PROFILE_RECOVERY_ORDER, from 0.
RecoveryIndexOf(quality) ==
    IF \E i \in 1..Len(PROFILE_RECOVERY_ORDER) : PROFILE_RECOVERY_ORDER[i] = quality
    THEN (CHOOSE i \in 1..Len(PROFILE_RECOVERY_ORDER) : PROFILE_RECOVERY_ORDER[i] = quality) - 1
    ELSE -1

\* getStats() settles and collectAndBroadcastStats() goes on with the
\* sample: diagnostics entry, diag frame, evaluate, and either the await of
\* applyQualityProfile or onStats.  On a closed connection the browser
\* either still delivers the report or rejects.
StatsTickResumes(snapshot, delivered) ==
    /\ statsTick.at = "getStats"
    /\ ~IsClosed => delivered
    /\ IF ~delivered
       THEN /\ statsTick' = IdleTick
            /\ callOut' = {}
            /\ UNCHANGED <<activeQuality, callTrace, qualityVars>>
       ELSE LET r == evaluate(qualityState, stableSampleCount, snapshot)
                recovering == r.changed /\ r.nextState = RECOVERING
                nextIndex == Min(Len(PROFILE_RECOVERY_ORDER) - 1,
                                 RecoveryIndexOf(activeQuality) + 1)
                nextQuality == IF recovering THEN PROFILE_RECOVERY_ORDER[nextIndex + 1]
                               ELSE IF r.changed THEN r.nextState
                               ELSE activeQuality
                written == {"diagnostics entry"}
                              \cup (IF channels.diag = "open" THEN {"diag frame"} ELSE {})
            IN /\ IF recovering
                  THEN LET f == forceState(r.state, r.count, nextQuality) IN
                       /\ qualityState' = f.state
                       /\ stableSampleCount' = f.count
                       /\ goodRun' = goodRun + 1
                       /\ lastCall' = [op |-> "forceState", target |-> nextQuality,
                                       before |-> r.state, countBefore |-> r.count,
                                       runBefore |-> goodRun + 1,
                                       nextState |-> f.nextState, changed |-> f.changed]
                  ELSE Evaluate(snapshot)
               /\ activeQuality' = nextQuality
               /\ IF r.changed
                  THEN /\ statsTick' = [at |-> "applyQualityProfile", profile |-> nextQuality]
                       /\ callOut' = written
                       /\ callTrace' = AfterClose(callTrace, written)
                  ELSE /\ statsTick' = IdleTick
                       /\ callOut' = written \cup {"stats sample"}
                       /\ callTrace' = AfterClose(callTrace, written \cup {"stats sample"})
    /\ UNCHANGED <<peerConnection, channels, sessionId, statsTimer,
                   connectWatchdog, localIceCandidates, timers, pendingOp, iceWait>>
    /\ UNCHANGED notCallVars

\* applyQualityProfile() of the tick settles (its failures are swallowed):
\* onStats.
StatsTickFinishes ==
    /\ statsTick.at = "applyQualityProfile"
    /\ statsTick' = IdleTick
    /\ callOut' = {"stats sample"}
    /\ callTrace' = AfterClose(callTrace, {"stats sample"})
    /\ UNCHANGED <<peerConnection, channels, sessionId, activeQuality, statsTimer,
                   connectWatchdog, localIceCandidates, timers, pendingOp, iceWait>>
    /\ UNCHANGED <<qualityVars, notCallVars>>

\* close()
Close ==
    /\ channels.role # "none"
    /\ LET noStats == IF statsTimer # Null
                      THEN clearTimeout(timers, ValueOf(statsTimer)) ELSE timers
           c == clearConnectWatchdog(noStats, connectWatchdog)
       IN /\ timers' = c.timers
          /\ connectWatchdog' = c.connectWatchdog
    /\ statsTimer' = Null
    /\ channels' = [channels EXCEPT
                       !.chat = IF @ = "none" THEN @ ELSE "closed",
                       !.diag = IF @ = "none" THEN @ ELSE "closed"]
    /\ peerConnection' = [peerConnection EXCEPT !.connectionState = "closed"]
    /\ callTrace' = [callTrace EXCEPT !.closed = TRUE, !.armedFor = Null]
    /\ callOut' = {}
    /\ UNCHANGED <<sessionId, activeQuality, localIceCandidates, pendingOp,
                   iceWait, statsTick>>
    /\ UNCHANGED <<qualityVars, notCallVars>>

CreateControllerStep == \E role \in Roles : CreateController(role)

CallAdvanceTimeStep == CallAdvanceTime(EventGapMs)

\* While the candidates are gathered, time is followed only as long as a
\* wait is pending.
GatherAdvanceTimeStep ==
    /\ iceWait.active /\ ~iceWait.done
    /\ CallAdvanceTime(GatherGapMs)

IceCandidateStep == \E isNull \in BOOLEAN : IceCandidate(isNull, MaxCandidates)

GatherCandidateStep == \E isNull \in BOOLEAN : IceCandidate(isNull, MaxGatherCandidates)

ConnectionStateChangeStep ==
    \E state \in {"connecting", "connected", "disconnected", "failed"} :
        ConnectionStateChange(state)

StatsTickResumesStep ==
    \E snapshot \in CallSnapshots, delivered \in BOOLEAN :
        StatsTickResumes(snapshot, delivered)

CallNext ==
    \/ CreateControllerStep
    \/ CallAdvanceTimeStep
    \/ CreateOfferPayload
    \/ AcceptOfferAndCreateAnswer
    \/ AwaitSettles
    \/ IceGatheringStateChange
    \/ IceCandidateStep
    \/ IceTimerFires
    \/ ConnectionStateChangeStep
    \/ ChannelsOpen
    \/ WatchdogFires
    \/ StatsTimerFires
    \/ StatsTickResumesStep
    \/ StatsTickFinishes
    \/ Close

\* The controller while it negotiates and gathers candidates.
CallGatherNext ==
    \/ CreateControllerStep
    \/ GatherAdvanceTimeStep
    \/ CreateOfferPayload
    \/ AcceptOfferAndCreateAnswer
    \/ AwaitSettles
    \/ IceGatheringStateChange
    \/ GatherCandidateStep
    \/ IceTimerFires
    \/ Close

(***************************************************************************)
(* RateLimiter: fixed-window counters keyed by IP                          *)
(***************************************************************************)

\* Last value of the limiter's clock.
MaxLimiterClock == 3
\* Largest windowMs and maxRequests a limiter is constructed with.
MaxWindowMs == 2
MaxRequestCap == 2

\* Request IPs.
LimiterKeys == {"ip1", "ip2"}

\* RateLimiter.allow as it would be if a denied call restarted the window.
AllowRestartingOnDeny(buckets, key, now, windowMs, maxRequests) ==
    IF key \notin DOMAIN buckets
    THEN [ok |-> TRUE, buckets |-> MapSet(buckets, key, [count |-> 1, windowStart |-> now])]
    ELSE IF now - buckets[key].windowStart >= windowMs
    THEN [ok |-> TRUE, buckets |-> MapSet(buckets, key, [count |-> 1, windowStart |-> now])]
    ELSE IF buckets[key].count >= maxRequests
    THEN [ok |-> FALSE,
          buckets |-> MapSet(buckets, key, [count |-> buckets[key].count, windowStart |-> now])]
    ELSE [ok |-> TRUE,
          buckets |-> MapSet(buckets, key, [count |-> buckets[key].count + 1,
                                            windowStart |-> buckets[key].windowStart])]

\* RateLimiter.allow: the verdict and the buckets afterwards.
allow(buckets, key, now, windowMs, maxRequests) ==
    IF key \notin DOMAIN buckets
    THEN [ok |-> TRUE, buckets |-> MapSet(buckets, key, [count |-> 1, windowStart |-> now])]
    ELSE IF now - buckets[key].windowStart >= windowMs
    THEN [ok |-> TRUE, buckets |-> MapSet(buckets, key, [count |-> 1, windowStart |-> now])]
    ELSE IF buckets[key].count >= maxRequests
    THEN [ok |-> FALSE, buckets |-> buckets]
    ELSE [ok |-> TRUE,
          buckets |-> MapSet(buckets, key, [count |-> buckets[key].count + 1,
                                            windowStart |-> buckets[key].windowStart])]

\* RateLimiter.prune as it would be if it dropped a bucket one window old.
PruneAfterOneWindow(buckets, now, windowMs) ==
    [key \in {k \in DOMAIN buckets : now - buckets[k].windowStart < windowMs}
        |-> buckets[key]]

\* RateLimiter.prune
prune(buckets, now, windowMs) ==
    [key \in {k \in DOMAIN buckets : now - buckets[k].windowStart < windowMs * 2}
        |-> buckets[key]]

NoLimiterTrace ==
    [call |-> [op |-> "none"],
     grants |-> [key \in LimiterKeys |-> <<>>],
     opened |-> [key \in LimiterKeys |-> <<>>],
     unpruned |-> <<>>]

LimiterInit ==
    /\ limiter = [made |-> FALSE, windowMs |-> 0, maxRequests |-> 0, buckets |-> <<>>]
    /\ limiterNow = 0
    /\ limiterTrace = NoLimiterTrace

\* new RateLimiter(windowMs, maxRequests)
NewRateLimiter ==
    /\ ~limiter.made
    /\ \E windowMs \in 1..MaxWindowMs, maxRequests \in 1..MaxRequestCap :
          limiter' = [made |-> TRUE, windowMs |-> windowMs, maxRequests |-> maxRequests,
                      buckets |-> <<>>]
    /\ UNCHANGED <<limiterNow, limiterTrace>>
    /\ UNCHANGED notLimiterVars

\* Date.now() advances between two calls.
LimiterTick ==
    /\ limiter.made
    /\ limiterNow < MaxLimiterClock
    /\ limiterNow' = limiterNow + 1
    /\ UNCHANGED <<limiter, limiterTrace>>
    /\ UNCHANGED notLimiterVars

\* restRateLimiter.allow(requestIp) / wsRateLimiter.allow(requestIp)
Allow ==
    /\ limiter.made
    /\ \E key \in LimiterKeys :
          LET r == allow(limiter.buckets, key, limiterNow, limiter.windowMs,
                         limiter.maxRequests)
              \* History: does the call fall outside every window of the key?
              windows == limiterTrace.opened[key]
              inWindow == /\ windows # <<>>
                          /\ limiterNow - windows[Len(windows)] < limiter.windowMs
              \* History: the same call on a limiter that was given the same
              \* allow calls and no prune.
              u == allow(limiterTrace.unpruned, key, limiterNow, limiter.windowMs,
                         limiter.maxRequests)
          IN /\ limiter' = [limiter EXCEPT !.buckets = r.buckets]
             /\ limiterTrace' =
                  [call |-> [op |-> "allow", key |-> key, now |-> limiterNow, ok |-> r.ok,
                             inWindow |-> inWindow, before |-> limiter.buckets,
                             okUnpruned |-> u.ok,
                             pruned |-> key \notin DOMAIN limiter.buckets
                                        /\ key \in DOMAIN limiterTrace.unpruned],
                   grants |-> IF r.ok
                              THEN [limiterTrace.grants EXCEPT ![key] = Append(@, limiterNow)]
                              ELSE limiterTrace.grants,
                   opened |-> IF inWindow THEN limiterTrace.opened
                              ELSE [limiterTrace.opened EXCEPT ![key] = Append(@, limiterNow)],
                   unpruned |-> u.buckets]
    /\ UNCHANGED limiterNow
    /\ UNCHANGED notLimiterVars

\* The cleanup timer's restRateLimiter.prune() / wsRateLimiter.prune()
Prune ==
    /\ limiter.made
    /\ limiter' = [limiter EXCEPT !.buckets = prune(@, limiterNow, limiter.windowMs)]
    /\ limiterTrace' = [limiterTrace EXCEPT
                            !.call = [op |-> "prune", now |-> limiterNow,
                                      before |-> limiter.buckets]]
    /\ UNCHANGED limiterNow
    /\ UNCHANGED notLimiterVars

LimiterNext ==
    \/ NewRateLimiter
    \/ LimiterTick
    \/ Allow
    \/ Prune

(***************************************************************************)
(* App component: brute-force slowdown of packet unlocking                 *)
(***************************************************************************)

MAX_DECRYPT_FAILS == 5
DECRYPT_COOLDOWN_MS == 60000

\* Time between two things the user does, and the last instant modelled.
AppGapMs == 20000
MaxAppClock == 120000

\* checkDecryptCooldown: may the attempt go on?
checkDecryptCooldown(state, now) == ~(now < state.decryptCooldownUntil)

\* resetDecryptProtection
resetDecryptProtection(state) ==
    [state EXCEPT !.decryptFailureCount = 0, !.decryptCooldownUntil = 0]

\* recordDecryptFailure as it would be if every failure code counted.
RecordEveryFailure(state, code, now) ==
    LET nextCount == state.decryptFailureCount + 1 IN
    IF nextCount >= MAX_DECRYPT_FAILS
    THEN [state EXCEPT !.decryptFailureCount = 0,
                       !.decryptCooldownUntil = now + DECRYPT_COOLDOWN_MS]
    ELSE [state EXCEPT !.decryptFailureCount = nextCount]

\* recordDecryptFailure
recordDecryptFailure(state, code, now) ==
    IF code # "PASS_PHRASE_MISMATCH" THEN state
    ELSE LET nextCount == state.decryptFailureCount + 1 IN
         IF nextCount >= MAX_DECRYPT_FAILS
         THEN [state EXCEPT !.decryptFailureCount = 0,
                            !.decryptCooldownUntil = now + DECRYPT_COOLDOWN_MS]
         ELSE [state EXCEPT !.decryptFailureCount = nextCount]

\* How the try block of a join or apply-answer flow ends: where it threw and
\* what, or that it ran to its end.  "decrypt" is decryptOfferEnvelope /
\* decryptAnswerEnvelope, "media" is ensureLocalStream (join only), "later" is
\* acceptOfferAndCreateAnswer, createSignalEnvelope or applyAnswer.
FlowEndings ==
    {[threwAt |-> "decode", error |-> "Invalid packet chunk format."],
     [threwAt |-> "decrypt", error |-> "DECRYPTION_FAILED"],
     [threwAt |-> "decrypt", error |-> "PACKET_EXPIRED"],
     [threwAt |-> "media", error |-> "NotAllowedError"],
     [threwAt |-> "later", error |-> "Answer session does not match."],
     [threwAt |-> "nowhere", error |-> ""]}

NoAppTrace == [out |-> [handler |-> "none", stage |-> "none"], failed |-> <<>>, startedBy |-> <<>>]

AppInit ==
    /\ app = [decryptFailureCount |-> 0, decryptCooldownUntil |-> 0, manager |-> FALSE,
              busy |-> FALSE, flow |-> "none"]
    /\ appNow = 0
    /\ appTrace = NoAppTrace

\* Date.now() moves on while the user reads, types or waits.
AppTick ==
    /\ appNow + AppGapMs <= MaxAppClock
    /\ appNow' = appNow + AppGapMs
    /\ UNCHANGED <<app, appTrace>>
    /\ UNCHANGED notAppVars

\* handleStartHost, as far as it decides whether there is a manager.
HandleStartHost ==
    /\ ~app.busy
    /\ \E credentialsOk \in BOOLEAN, made \in BOOLEAN :
          /\ app' = IF ~credentialsOk THEN app ELSE [app EXCEPT !.manager = made]
          /\ appTrace' = [appTrace EXCEPT !.out =
                            [handler |-> "startHost", stage |-> "done", credentialsOk |-> credentialsOk,
                             made |-> made]]
    /\ UNCHANGED appNow
    /\ UNCHANGED notAppVars

\* handleJoinAndCreateAnswer / handleHostApplyAnswer up to setBusy(true): the
\* checks made before the packet text is read.
FlowStarts ==
    /\ ~app.busy
    /\ \E handler \in {"join", "applyAnswer"}, credentialsOk \in BOOLEAN,
          tooLarge \in BOOLEAN :
          LET rejected ==
                  IF handler = "join" /\ ~credentialsOk THEN "ROOM_CODE_INVALID"
                  ELSE IF handler = "applyAnswer" /\ ~app.manager THEN "HOST_NOT_READY"
                  ELSE IF ~checkDecryptCooldown(app, appNow) THEN "SECURITY_COOLDOWN"
                  ELSE IF tooLarge THEN "PACKET_TOO_LARGE"
                  ELSE ""
          IN /\ app' = IF rejected # "" THEN app
                       ELSE [app EXCEPT !.busy = TRUE, !.flow = handler]
             /\ appTrace' = [appTrace EXCEPT !.out =
                               [handler |-> handler, stage |-> "checks",
                                rejected |-> rejected, now |-> appNow,
                                cooldownUntil |-> app.decryptCooldownUntil]]
    /\ UNCHANGED appNow
    /\ UNCHANGED notAppVars

\* The rest of the handler: the try block, its catch and its finally.
FlowEnds ==
    /\ app.busy
    /\ \E ending \in FlowEndings :
          /\ ending.threwAt = "media" => app.flow = "join"
          /\ LET code == describeFailure(ending.error).code
                 settled ==
                     IF ending.threwAt = "nowhere"
                     THEN resetDecryptProtection(app)
                     ELSE recordDecryptFailure(app, code, appNow)
                 \* History: the instants of the failed unlocks since the flow
                 \* that ran to its end last or the cooldown that started last.
                 failed == IF ending.threwAt = "nowhere" THEN <<>>
                           ELSE IF ending.error = "DECRYPTION_FAILED"
                           THEN Append(appTrace.failed, appNow)
                           ELSE appTrace.failed
                 cooldownStarted ==
                     settled.decryptCooldownUntil # app.decryptCooldownUntil
                     /\ settled.decryptCooldownUntil # 0
             IN /\ app' = [settled EXCEPT
                             !.busy = FALSE, !.flow = "none",
                             !.manager = IF app.flow = "join"
                                         THEN (IF ending.threwAt \in {"decode", "decrypt"}
                                               THEN @ ELSE ending.threwAt # "media")
                                         ELSE @]
                /\ appTrace' =
                     [out |-> [handler |-> app.flow, stage |-> "try", ending |-> ending,
                               decrypted |-> ending.threwAt \in {"media", "later", "nowhere"},
                               countBefore |-> app.decryptFailureCount,
                               failed |-> failed,
                            cooldownStarted |-> cooldownStarted, now |-> appNow],
                      failed |-> IF cooldownStarted THEN <<>> ELSE failed,
                      startedBy |-> IF cooldownStarted THEN failed ELSE appTrace.startedBy]
    /\ UNCHANGED appNow
    /\ UNCHANGED notAppVars

AppNext ==
    \/ AppTick
    \/ HandleStartHost
    \/ FlowStarts
    \/ FlowEnds

(***************************************************************************)
(* signalCrypto.ts: decryptJsonPayload on blobs damaged in transit         *)
(***************************************************************************)

AssociatedData == {"aad-1", "aad-2"}

\* What can happen to ciphertextB64 between encryptJsonPayload and
\* decryptJsonPayload: nothing; its last 1..4 characters are lost; one character
\* is replaced by another of the alphabet; one is replaced by a character
\* outside the alphabet.
MaxCut == 4
Damages ==
    {[kind |-> "none", cut |-> 0], [kind |-> "changed", cut |-> 0],
     [kind |-> "foreign", cut |-> 0]}
    \cup {[kind |-> "cut", cut |-> n] : n \in 1..MaxCut}

Damaged(base64, damage) ==
    CASE damage.kind = "none" -> base64
      [] damage.kind = "cut" ->
            [base64 EXCEPT !.length = @ - damage.cut,
                           !.padding = IF @ > damage.cut THEN @ - damage.cut ELSE 0]
      [] damage.kind = "changed" -> [base64 EXCEPT !.bytes.intact = FALSE]
      [] damage.kind = "foreign" -> [base64 EXCEPT !.alphabet = FALSE]

CryptoInit == cryptoCall = [op |-> "none"]

\* encryptJsonPayload by one peer, the blob possibly damaged on its way, then
\* decryptJsonPayload by the other.
DecryptJsonPayloadCall ==
    /\ \E jsonBytes \in {SmallPayloadBytes, SmallPayloadBytes + 1},
          sealPass \in {PassOne, PassTwo}, openPass \in {PassOne, PassTwo},
          sealRoom \in {RoomCode1, RoomCode2}, openRoom \in {RoomCode1, RoomCode2},
          sealData \in AssociatedData, openData \in AssociatedData,
          damage \in Damages :
          LET blob == encryptJsonPayload(Payload("offer", jsonBytes), sealPass, sealRoom,
                                         sealData, "salt-1", "iv-1")
              received == [blob EXCEPT !.ciphertextB64 = Damaged(@, damage)]
          IN cryptoCall' =
               [op |-> "decryptJsonPayload", payload |-> Payload("offer", jsonBytes),
                wrongPassphrase |-> openPass # sealPass,
                wrongRoomCode |-> openRoom # sealRoom,
                wrongAssociatedData |-> openData # sealData,
                damage |-> damage, padding |-> blob.ciphertextB64.padding,
                result |-> decryptJsonPayload(received, openPass, openRoom, openData)]
    /\ UNCHANGED notCryptoVars

CryptoNext == DecryptJsonPayloadCall

(***************************************************************************)
(* WebRtcCallManager: offer and answer between controllers                 *)
(***************************************************************************)

\* Two hosts and a joiner; randomId() gives every controller its own id.
HostNames == {"host", "otherHost"}
JoinerNames == {"joiner"}
PeerNames == HostNames \cup JoinerNames

MaxOffers == 2          \* createOfferPayload calls of one host
MaxAnswers == 3         \* answers produced in all

randomId(name) == <<"id-of", name>>

\* RTCPeerConnection.setRemoteDescription: an answer needs a pending local
\* offer, an offer a stable connection.
setRemoteDescription(manager, type, sdp) ==
    IF \/ type = "answer" /\ manager.signalingState # "have-local-offer"
       \/ type = "offer" /\ manager.signalingState # "stable"
    THEN [ok |-> FALSE, error |-> "InvalidStateError", manager |-> manager]
    ELSE [ok |-> TRUE,
          manager |-> [manager EXCEPT
                         !.remoteDescription = Some([type |-> type, sdp |-> sdp]),
                         !.signalingState = IF type = "answer" THEN "stable"
                                            ELSE "have-remote-offer"]]

\* acceptOfferAndCreateAnswer; `added` are the candidates addIceCandidate took.
acceptOfferAndCreateAnswer(manager, offer, added) ==
    LET adopted == [manager EXCEPT !.sessionId = offer.sessionId]
        remote == setRemoteDescription(adopted, "offer", offer.sdpOffer)
    IN IF ~remote.ok THEN [ok |-> FALSE, error |-> remote.error, manager |-> adopted]
       ELSE [ok |-> TRUE,
             manager |-> [remote.manager EXCEPT
                            !.remoteCandidates = @ \cup added,
                            !.signalingState = "stable"],
             value |-> [sessionId |-> offer.sessionId,
                        sdpAnswer |-> <<"answer-to", offer.sdpOffer, "by", manager.name>>,
                        iceCandidates |-> {<<"candidate-of", manager.name>>}]]

\* applyAnswer without its first statement.
ApplyAnswerOfAnySession(manager, answer, added) ==
    LET remote == setRemoteDescription(manager, "answer", answer.sdpAnswer) IN
    IF ~remote.ok THEN [ok |-> FALSE, error |-> remote.error, manager |-> manager]
    ELSE [ok |-> TRUE,
          manager |-> [remote.manager EXCEPT !.remoteCandidates = @ \cup added]]

\* applyAnswer
applyAnswer(manager, answer, added) ==
    IF answer.sessionId # manager.sessionId
    THEN [ok |-> FALSE, error |-> "The answer packet is for a different session.",
          manager |-> manager]
    ELSE LET remote == setRemoteDescription(manager, "answer", answer.sdpAnswer) IN
         IF ~remote.ok THEN [ok |-> FALSE, error |-> remote.error, manager |-> manager]
         ELSE [ok |-> TRUE,
               manager |-> [remote.manager EXCEPT !.remoteCandidates = @ \cup added]]

HandshakeInit ==
    /\ peers = [name \in PeerNames |->
                  [name |-> name, sessionId |-> randomId(name), signalingState |-> "stable",
                   remoteDescription |-> Null, remoteCandidates |-> {}, offers |-> 0]]
    /\ exchanged = [offers |-> {}, answers |-> {}]
    /\ handshakeOut = [op |-> "none"]

\* createOfferPayload by a host.
HostCreatesOffer ==
    /\ \E name \in HostNames :
          /\ peers[name].offers < MaxOffers
          /\ LET n == peers[name].offers + 1
                 offer == [sessionId |-> peers[name].sessionId,
                           sdpOffer |-> <<"offer", n, "of", name>>,
                           iceCandidates |-> {<<"candidate-of", name>>}]
             IN /\ peers' = [peers EXCEPT ![name].offers = n,
                                          ![name].signalingState = "have-local-offer"]
                /\ exchanged' = [exchanged EXCEPT !.offers = @ \cup {offer}]
                /\ handshakeOut' = [op |-> "createOfferPayload", by |-> name]
    /\ UNCHANGED notHandshakeVars

\* acceptOfferAndCreateAnswer by a joiner on an offer it was handed.
JoinerAcceptsOffer ==
    /\ Cardinality(exchanged.answers) < MaxAnswers
    /\ \E name \in JoinerNames, offer \in exchanged.offers :
       \E added \in SUBSET offer.iceCandidates :
          LET r == acceptOfferAndCreateAnswer(peers[name], offer, added) IN
          /\ peers' = [peers EXCEPT ![name] = r.manager]
          /\ exchanged' = IF r.ok THEN [exchanged EXCEPT !.answers = @ \cup {r.value}]
                          ELSE exchanged
          /\ handshakeOut' = [op |-> "acceptOfferAndCreateAnswer", by |-> name,
                              offer |-> offer, ok |-> r.ok]
    /\ UNCHANGED notHandshakeVars

\* applyAnswer by a host on an answer it was handed.
HostAppliesAnswer ==
    /\ \E name \in HostNames, answer \in exchanged.answers :
       \E added \in SUBSET answer.iceCandidates :
          LET r == applyAnswer(peers[name], answer, added) IN
          /\ peers' = [peers EXCEPT ![name] = r.manager]
          /\ handshakeOut' = [op |-> "applyAnswer", by |-> name, answer |-> answer,
                              before |-> peers[name], ok |-> r.ok,
                              error |-> IF r.ok THEN "" ELSE r.error]
    /\ UNCHANGED exchanged
    /\ UNCHANGED notHandshakeVars

HandshakeNext ==
    \/ HostCreatesOffer
    \/ JoinerAcceptsOffer
    \/ HostAppliesAnswer

(***************************************************************************)
(* DiagnosticsLog                                                          *)
(***************************************************************************)

FIFTEEN_MINUTES_MS == 900000

DiagGapMs == 450000         \* the clock moves by this much
MaxDiagClock == 1800000
MaxDiagEvents == 4          \* events inserted in all

\* The timestamps an event can carry: the peer's clock may be ahead or behind.
DiagTimestamps == {k * DiagGapMs : k \in 0..(MaxDiagClock \div DiagGapMs)}

RECURSIVE ShiftWhile(_, _)
\* while (events.length > 0 && events[0].timestamp < minTimestamp) events.shift()
ShiftWhile(events, minTimestamp) ==
    IF Len(events) > 0 /\ Head(events).timestamp < minTimestamp
    THEN ShiftWhile(Tail(events), minTimestamp)
    ELSE events

\* pruneOldEntries
pruneOldEntries(log, now) ==
    LET minTimestamp == now - FIFTEEN_MINUTES_MS IN
    [localEvents |-> ShiftWhile(log.localEvents, minTimestamp),
     remoteEvents |-> ShiftWhile(log.remoteEvents, minTimestamp)]

\* addLocalEvent
addLocalEvent(log, event, now) ==
    pruneOldEntries([log EXCEPT !.localEvents = Append(@, event)], now)

\* addRemoteEvent
addRemoteEvent(log, event, now) ==
    pruneOldEntries([log EXCEPT !.remoteEvents = Append(@, event)], now)

\* One step of Array.prototype.sort with (first, second) => first.timestamp -
\* second.timestamp: the element goes behind every element it does not precede.
InsertByTimestamp(sorted, event) ==
    LET ahead == {i \in 1..Len(sorted) : sorted[i].timestamp - event.timestamp <= 0}
        at == IF ahead = {} THEN 0 ELSE CHOOSE i \in ahead : \A j \in ahead : j <= i
    IN SubSeq(sorted, 1, at) \o <<event>> \o SubSeq(sorted, at + 1, Len(sorted))

RECURSIVE SortByTimestamp(_)
\* Array.prototype.sort is stable.
SortByTimestamp(events) ==
    IF events = <<>> THEN <<>>
    ELSE InsertByTimestamp(SortByTimestamp(SubSeq(events, 1, Len(events) - 1)),
                           events[Len(events)])

\* getMergedEvents spreading the remote events first.
GetMergedEventsRemoteFirst(log) == SortByTimestamp(log.remoteEvents \o log.localEvents)

\* getMergedEvents
getMergedEvents(log) == SortByTimestamp(log.localEvents \o log.remoteEvents)

DiagInit ==
    /\ diagLog = [localEvents |-> <<>>, remoteEvents |-> <<>>]
    /\ diagNow = 0
    /\ diagOut = [op |-> "none", inserted |-> 0]

DiagTick ==
    /\ diagNow + DiagGapMs <= MaxDiagClock
    /\ diagNow' = diagNow + DiagGapMs
    /\ UNCHANGED <<diagLog, diagOut>>
    /\ UNCHANGED notDiagVars

\* log.addLocalEvent(event) / log.addRemoteEvent(event); the n-th event
\* inserted is told from the others by `n`.
AddEvent ==
    /\ diagOut.inserted < MaxDiagEvents
    /\ \E side \in {"local", "remote"}, timestamp \in DiagTimestamps :
          LET event == [timestamp |-> timestamp, n |-> diagOut.inserted + 1] IN
          /\ diagLog' = IF side = "local" THEN addLocalEvent(diagLog, event, diagNow)
                        ELSE addRemoteEvent(diagLog, event, diagNow)
          /\ diagOut' = [op |-> "add", side |-> side, event |-> event, now |-> diagNow,
                         inserted |-> diagOut.inserted + 1]
    /\ UNCHANGED diagNow
    /\ UNCHANGED notDiagVars

\* log.getMergedEvents()
GetMergedEvents ==
    /\ diagOut' = [op |-> "getMergedEvents", merged |-> getMergedEvents(diagLog),
                   inserted |-> diagOut.inserted]
    /\ UNCHANGED <<diagLog, diagNow>>
    /\ UNCHANGED notDiagVars

DiagNext ==
    \/ DiagTick
    \/ AddEvent
    \/ GetMergedEvents

(***************************************************************************)
(* WebRtcCallManager: frames arriving on the chat and diag channels        *)
(***************************************************************************)

MAX_DATA_CHANNEL_MESSAGE_CHARS == 16000
MAX_CHAT_CHARS == 500
MAX_PEER_ID_CHARS == 32
MAX_EVENT_TYPE_CHARS == 64
MAX_DIAG_MESSAGE_CHARS == 512

MaxFrames == 3          \* frames arriving on the two channels in all

\* ---- JavaScript values as JSON.parse gives them ----
JsUndefined == [t |-> "undefined"]
JsNull == [t |-> "null"]
JsNumber(n) == [t |-> "number", n |-> n]
JsBoolean(b) == [t |-> "boolean", b |-> b]
JsString(s, length) == [t |-> "string", s |-> s, length |-> length]
JsArray == [t |-> "object", array |-> TRUE, fields |-> [length |-> JsNumber(0)]]
JsObject(fields) == [t |-> "object", array |-> FALSE, fields |-> fields]

typeof(value) == IF value.t = "null" THEN "object" ELSE value.t

\* !value
Falsy(value) ==
    \/ value.t \in {"undefined", "null"}
    \/ value.t = "number" /\ value.n = 0
    \/ value.t = "boolean" /\ ~value.b
    \/ value.t = "string" /\ value.length = 0

\* key in value, for an object or an array.
HasKey(value, key) == key \in DOMAIN value.fields

\* value[key]
Get(value, key) ==
    IF value.t = "object" /\ HasKey(value, key) THEN value.fields[key] ELSE JsUndefined

\* ---- sanitizeChatText ----
ControlChars == {"\n"}

RECURSIVE CollapseWhitespace(_)
\* .replace(/\s+/gu, " ")
CollapseWhitespace(s) ==
    IF Len(s) < 2 THEN s
    ELSE IF s[1] \in Whitespace /\ s[2] \in Whitespace THEN CollapseWhitespace(Tail(s))
    ELSE <<s[1]>> \o CollapseWhitespace(Tail(s))

sanitizeChatText(input) ==
    IF input.t # "string" THEN Thrown("TypeError")
    ELSE LET spaced == [i \in 1..Len(input.s) |->
                           IF input.s[i] \in ControlChars THEN " " ELSE input.s[i]]
             cleaned == trim(CollapseWhitespace(spaced))
         IN Returned(SubSeq(cleaned, 1, Min(Len(cleaned), MAX_CHAT_CHARS)))

\* ---- safeDiagEvent ----
DiagNumberFields ==
    {"timestamp", "rttMs", "jitterMs", "packetLossPct", "bitrateKbps", "frameWidth",
     "frameHeight", "fps", "audioLevel"}
DiagStringFields == {"peerId", "eventType", "message"}

safeDiagEvent(payload) ==
    IF typeof(payload) # "object" \/ payload.t = "null" THEN Null
    ELSE IF \/ \E f \in DiagNumberFields : typeof(Get(payload, f)) # "number"
            \/ \E f \in DiagStringFields : typeof(Get(payload, f)) # "string"
    THEN Null
    ELSE IF \/ Get(payload, "peerId").length > MAX_PEER_ID_CHARS
            \/ Get(payload, "eventType").length > MAX_EVENT_TYPE_CHARS
            \/ Get(payload, "message").length > MAX_DIAG_MESSAGE_CHARS
    THEN Null
    ELSE Some([f \in DiagNumberFields \cup DiagStringFields |-> Get(payload, f)])

\* ---- the onmessage handlers ----
\* What handling one frame did: callbacks invoked, remote diagnostics events
\* added, and the exception that left the handler, if any.
Quiet == [callbacks |-> <<>>, added |-> <<>>, thrown |-> ""]

\* safeJsonParse
safeJsonParse(frame) == IF frame.json THEN frame.decoded ELSE JsNull

\* The checks both handlers begin with.
PassesEnvelopeChecks(frame) ==
    /\ frame.isString
    /\ ~(frame.length > MAX_DATA_CHANNEL_MESSAGE_CHARS)
    /\ LET decoded == safeJsonParse(frame) IN
       ~(\/ Falsy(decoded)
         \/ typeof(decoded) # "object"
         \/ ~HasKey(decoded, "type")
         \/ ~HasKey(decoded, "payload"))

\* bindChatChannel: channel.onmessage
bindChatChannel(frame) ==
    IF ~PassesEnvelopeChecks(frame) THEN Quiet
    ELSE LET message == safeJsonParse(frame)
             type == Get(message, "type")
             payload == Get(message, "payload")
             isObject == typeof(payload) = "object" /\ ~Falsy(payload)
         IN IF type = JsString("chat", 4) /\ isObject
            THEN LET cleanText == sanitizeChatText(Get(payload, "text")) IN
                 IF ~cleanText.ok THEN [Quiet EXCEPT !.thrown = cleanText.error]
                 ELSE IF cleanText.value = <<>> THEN Quiet
                 ELSE [Quiet EXCEPT !.callbacks =
                         <<[callback |-> "onChatMessage", id |-> Get(payload, "id"),
                            from |-> "remote", text |-> cleanText.value,
                            timestamp |-> Get(payload, "timestamp")]>>]
            ELSE IF type = JsString("control", 7) /\ isObject
            THEN IF /\ typeof(Get(payload, "audioEnabled")) = "boolean"
                    /\ typeof(Get(payload, "videoEnabled")) = "boolean"
                    /\ typeof(Get(payload, "timestamp")) = "number"
                 THEN [Quiet EXCEPT !.callbacks =
                         <<[callback |-> "onRemoteMediaState",
                            audioEnabled |-> Get(payload, "audioEnabled"),
                            videoEnabled |-> Get(payload, "videoEnabled"),
                            timestamp |-> Get(payload, "timestamp")]>>]
                 ELSE Quiet
            ELSE Quiet

\* bindDiagChannel: channel.onmessage
bindDiagChannel(frame) ==
    IF ~PassesEnvelopeChecks(frame) THEN Quiet
    ELSE LET message == safeJsonParse(frame)
             type == Get(message, "type")
             payload == Get(message, "payload")
         IN IF type = JsString("diag", 4) /\ typeof(payload) = "object" /\ ~Falsy(payload)
            THEN LET diagEvent == safeDiagEvent(payload) IN
                 IF diagEvent # Null THEN [Quiet EXCEPT !.added = <<ValueOf(diagEvent)>>]
                 ELSE Quiet
            ELSE Quiet

\* ---- frames ----
Text(chars) == JsString(chars, Len(chars))
Hi == Text(<<"h", "i">>)
Blank == Text(<<" ", "\n">>)
ChatPayload == JsObject([id |-> JsString("m1", 2), text |-> Hi, timestamp |-> JsNumber(1)])
ControlPayload ==
    JsObject([audioEnabled |-> JsBoolean(TRUE), videoEnabled |-> JsBoolean(FALSE),
              timestamp |-> JsNumber(1)])
DiagPayload ==
    JsObject([f \in DiagNumberFields \cup DiagStringFields |->
                IF f \in DiagNumberFields THEN JsNumber(1) ELSE JsString(f, 4)])

DataMessage(type, payload) == JsObject([type |-> type, payload |-> payload])
TextFrame(length, decoded) ==
    [isString |-> TRUE, length |-> length, json |-> TRUE, decoded |-> decoded]

\* Frames that are right for the channel named.
GoodFrames ==
    [chat |-> {TextFrame(60, DataMessage(JsString("chat", 4), ChatPayload)),
               TextFrame(MAX_DATA_CHANNEL_MESSAGE_CHARS,
                         DataMessage(JsString("chat", 4), ChatPayload)),
               TextFrame(70, DataMessage(JsString("control", 7), ControlPayload))},
     diag |-> {TextFrame(300, DataMessage(JsString("diag", 4), DiagPayload))}]

\* Payloads of the wrong shape for the type named.
WrongPayloads ==
    [chat |-> {JsNull, JsNumber(7), Hi, JsArray,
               JsObject([id |-> JsString("m1", 2), timestamp |-> JsNumber(1)]),
               JsObject([id |-> JsString("m1", 2), text |-> JsNumber(5),
                         timestamp |-> JsNumber(1)]),
               JsObject([text |-> Hi])},
     control |-> {JsNull, JsArray,
                  JsObject([audioEnabled |-> JsString("yes", 3),
                            videoEnabled |-> JsBoolean(FALSE), timestamp |-> JsNumber(1)]),
                  JsObject([audioEnabled |-> JsBoolean(TRUE)])},
     diag |-> {JsNull, JsArray,
               [DiagPayload EXCEPT !.fields.timestamp = JsString("1", 1)],
               [DiagPayload EXCEPT !.fields.peerId = JsString("long", MAX_PEER_ID_CHARS + 1)],
               JsObject([timestamp |-> JsNumber(1)])}]

\* Frames the claim calls malformed, with the reason.
MalformedFrames ==
    {[why |-> "not a string",
      frame |-> [isString |-> FALSE, length |-> 60, json |-> FALSE, decoded |-> JsNull]],
     [why |-> "too long",
      frame |-> TextFrame(MAX_DATA_CHANNEL_MESSAGE_CHARS + 1,
                          DataMessage(JsString("chat", 4), ChatPayload))],
     [why |-> "too long",
      frame |-> TextFrame(MAX_DATA_CHANNEL_MESSAGE_CHARS + 1,
                          DataMessage(JsString("diag", 4), DiagPayload))],
     [why |-> "not JSON",
      frame |-> [isString |-> TRUE, length |-> 60, json |-> FALSE, decoded |-> JsNull]]}
    \cup {[why |-> "no type or payload", frame |-> TextFrame(60, decoded)] :
             decoded \in {JsNull, JsNumber(3), JsArray, Hi,
                          JsObject([payload |-> ChatPayload]),
                          JsObject([type |-> JsString("chat", 4)])}}
    \cup {[why |-> "unknown type", frame |-> TextFrame(60, DataMessage(type, payload))] :
             type \in {JsString("ping", 4), JsNumber(1)},
             payload \in {ChatPayload, DiagPayload}}
    \cup {[why |-> "wrong payload",
           frame |-> TextFrame(60, DataMessage(JsString("chat", 4), payload))] :
             payload \in WrongPayloads.chat}
    \cup {[why |-> "wrong payload",
           frame |-> TextFrame(60, DataMessage(JsString("control", 7), payload))] :
             payload \in WrongPayloads.control}
    \cup {[why |-> "wrong payload",
           frame |-> TextFrame(60, DataMessage(JsString("diag", 4), payload))] :
             payload \in WrongPayloads.diag}

\* A chat whose text is blank after cleaning: well-formed, and dropped.
BlankChat ==
    TextFrame(60, DataMessage(JsString("chat", 4),
                          [ChatPayload EXCEPT !.fields.text = Blank]))

NoInbox ==
    [frames |-> 0, callbacks |-> 0, added |-> 0, errors |-> 0, malformed |-> 0,
     last |-> [channel |-> "none"]]

InboxInit == inbox = NoInbox

\* One frame arrives on `channel`; its handler runs to its end or throws.
FrameArrives(channel, frame, why) ==
    /\ inbox.frames < MaxFrames
    /\ LET did == IF channel = "chat" THEN bindChatChannel(frame)
                  ELSE bindDiagChannel(frame)
       IN inbox' = [frames |-> inbox.frames + 1,
                    callbacks |-> inbox.callbacks + Len(did.callbacks),
                    added |-> inbox.added + Len(did.added),
                    errors |-> inbox.errors + (IF did.thrown = "" THEN 0 ELSE 1),
                    malformed |-> inbox.malformed + (IF why = "" THEN 0 ELSE 1),
                    last |-> [channel |-> channel, frame |-> frame, why |-> why,
                              did |-> did]]
    /\ UNCHANGED notInboxVars

GoodFrameArrives ==
    \E channel \in {"chat", "diag"} : \E frame \in GoodFrames[channel] \cup {BlankChat} :
        FrameArrives(channel, frame, "")

MalformedFrameArrives ==
    \E channel \in {"chat", "diag"}, bad \in MalformedFrames :
        FrameArrives(channel, bad.frame, bad.why)

InboxNext ==
    \/ GoodFrameArrives
    \/ MalformedFrameArrives

(***************************************************************************)
(* WebRtcCallManager: media toggles and chat sent on the chat channel      *)
(***************************************************************************)

MIN_CHAT_INTERVAL_MS == 250

ControlsEpoch == 1000       \* Date.now() when the controller is made
ControlsGapMs == 125        \* the clock moves by this much
MaxControlsClock == 1375
MaxControlCalls == 3        \* toggle and sendChatMessage calls in all
MaxTracks == 2              \* tracks of one kind in the local stream

\* isMicrophoneEnabled / isCameraEnabled: the first track's flag, false
\* without a track.
isEnabled(tracks) == IF Len(tracks) > 0 THEN tracks[1] ELSE FALSE

\* JSON.stringify({type, payload}).length for the payloads sent here.
SerializedLength(type, payload) ==
    IF type = "chat" THEN 60 + Get(payload, "text").length ELSE 80

\* sendDataMessage on the chat channel: the frames in flight afterwards.
sendDataMessage(readyState, wire, type, payload) ==
    IF readyState # "open" THEN wire
    ELSE LET length == SerializedLength(type, payload) IN
         IF length > MAX_DATA_CHANNEL_MESSAGE_CHARS THEN wire
         ELSE Append(wire, TextFrame(length,
                                     DataMessage(JsString(type, IF type = "chat" THEN 4 ELSE 7),
                                                 payload)))

\* sendControlState reporting the flags as they were when the controller was made.
SendControlStateAsMade(state, wire) ==
    sendDataMessage(state.chatChannel, wire, "control",
        JsObject([audioEnabled |-> JsBoolean(Len(state.audio) > 0),
                  videoEnabled |-> JsBoolean(Len(state.video) > 0),
                  timestamp |-> JsNumber(state.now)]))

\* sendControlState
sendControlState(state, wire) ==
    sendDataMessage(state.chatChannel, wire, "control",
        JsObject([audioEnabled |-> JsBoolean(isEnabled(state.audio)),
                  videoEnabled |-> JsBoolean(isEnabled(state.video)),
                  timestamp |-> JsNumber(state.now)]))

\* sendChatMessage: what it throws, or the state, the frames in flight and the
\* message reported to onChatMessage.
sendChatMessage(state, wire, text, id) ==
    IF state.now - state.lastChatSentAt < MIN_CHAT_INTERVAL_MS
    THEN [ok |-> FALSE, error |-> "Please wait a moment before sending another message.",
          state |-> state, wire |-> wire]
    ELSE LET cleanText == sanitizeChatText(text).value IN
         IF cleanText = <<>>
         THEN [ok |-> FALSE, error |-> "Message is empty after security filtering.",
               state |-> state, wire |-> wire]
         ELSE LET payload == JsObject([id |-> JsString(id, 16), text |-> Text(cleanText),
                                       timestamp |-> JsNumber(state.now)])
              IN [ok |-> TRUE,
                  state |-> [state EXCEPT !.lastChatSentAt = state.now,
                                          !.localMessages = @ + 1],
                  wire |-> sendDataMessage(state.chatChannel, wire, "chat", payload),
                  value |-> [id |-> id, from |-> "local", text |-> cleanText,
                             timestamp |-> state.now]]

NoControls ==
    [made |-> FALSE, audio |-> <<>>, video |-> <<>>, chatChannel |-> "none",
     lastChatSentAt |-> 0, now |-> ControlsEpoch, localMessages |-> 0, calls |-> 0,
     peerMediaState |-> Null, peerMessages |-> 0, lost |-> FALSE,
     lastToggle |-> "none"]

ControlsInit ==
    /\ controls = NoControls
    /\ chatWire = <<>>
    /\ controlsOut = [op |-> "none"]

\* createHost / createJoiner on a stream fresh from getUserMedia: every track
\* enabled.  The host has its chat channel from the start, the joiner gets it
\* when the peer connection announces it.
CreateControls ==
    /\ ~controls.made
    /\ \E audioTracks \in 0..MaxTracks, videoTracks \in 0..MaxTracks,
          role \in {"host", "joiner"} :
          controls' = [controls EXCEPT
                         !.made = TRUE,
                         !.audio = [i \in 1..audioTracks |-> TRUE],
                         !.video = [i \in 1..videoTracks |-> TRUE],
                         !.chatChannel = IF role = "host" THEN "connecting" ELSE "none"]
    /\ controlsOut' = [op |-> "create"]
    /\ UNCHANGED chatWire
    /\ UNCHANGED notControlsVars

ControlsTick ==
    /\ controls.now + ControlsGapMs <= MaxControlsClock
    /\ controls' = [controls EXCEPT !.now = @ + ControlsGapMs]
    /\ UNCHANGED <<chatWire, controlsOut>>
    /\ UNCHANGED notControlsVars

\* The chat channel opens, or closes with whatever is still in flight.
ChatChannelChanges ==
    /\ controls.made
    /\ \/ /\ controls.chatChannel \in {"none", "connecting"}
          /\ controls' = [controls EXCEPT !.chatChannel = "open"]
          /\ UNCHANGED chatWire
       \/ /\ controls.chatChannel = "open"
          /\ controls' = [controls EXCEPT !.chatChannel = "closed",
                                          !.lost = @ \/ chatWire # <<>>]
          /\ chatWire' = <<>>
    /\ controlsOut' = [op |-> "channel"]
    /\ UNCHANGED notControlsVars

\* toggleMicrophoneEnabled(enabled) / toggleCameraEnabled(enabled)
Toggle ==
    /\ controls.made
    /\ controls.calls < MaxControlCalls
    /\ \E kind \in {"audio", "video"}, enabled \in BOOLEAN :
          LET flipped ==
                  IF kind = "audio"
                  THEN [controls EXCEPT !.audio = [i \in 1..Len(@) |-> enabled]]
                  ELSE [controls EXCEPT !.video = [i \in 1..Len(@) |-> enabled]]
          IN /\ controls' = [flipped EXCEPT
                               !.calls = @ + 1,
                               !.lastToggle = IF controls.chatChannel = "open"
                                              THEN "sent" ELSE "unsent"]
             /\ chatWire' = sendControlState(flipped, chatWire)
             /\ controlsOut' = [op |-> "toggle", kind |-> kind, enabled |-> enabled,
                                before |-> controls, wireBefore |-> chatWire]
    /\ UNCHANGED notControlsVars

\* sendChatMessage(text)
SendChatMessage ==
    /\ controls.made
    /\ controls.calls < MaxControlCalls
    /\ \E text \in {Hi, Blank} :
          LET r == sendChatMessage(controls, chatWire, text, "m1") IN
          /\ controls' = [r.state EXCEPT !.calls = @ + 1]
          /\ chatWire' = r.wire
          /\ controlsOut' = [op |-> "sendChatMessage", ok |-> r.ok,
                             before |-> controls, wireBefore |-> chatWire]
    /\ UNCHANGED notControlsVars

\* The peer's chat channel delivers the oldest frame in flight to its handler.
ChatFrameDelivered ==
    /\ chatWire # <<>>
    /\ LET did == bindChatChannel(Head(chatWire))
           surfaced == {i \in 1..Len(did.callbacks) :
                           did.callbacks[i].callback = "onRemoteMediaState"}
       IN controls' = [controls EXCEPT
                         !.peerMediaState =
                             IF surfaced = {} THEN @
                             ELSE Some([audioEnabled |-> did.callbacks[1].audioEnabled.b,
                                        videoEnabled |-> did.callbacks[1].videoEnabled.b]),
                         !.peerMessages = @ + Len(did.callbacks) - Cardinality(surfaced)]
    /\ chatWire' = Tail(chatWire)
    /\ controlsOut' = [op |-> "deliver"]
    /\ UNCHANGED notControlsVars

ControlsNext ==
    \/ CreateControls
    \/ ControlsTick
    \/ ChatChannelChanges
    \/ Toggle
    \/ SendChatMessage
    \/ ChatFrameDelivered

(***************************************************************************)
(* turn.ts: buildTurnCredentials                                           *)
(***************************************************************************)

MIN_TURN_TTL_SECONDS == 30
MAX_SAFE_PEER_CHARS == 40

\* Math.max
Max(a, b) == IF a >= b THEN a ELSE b

\* cleanUrls: every url trimmed, the empty ones left out.
cleanUrls(rawUrls) ==
    SelectSeq([i \in 1..Len(rawUrls) |-> trim(rawUrls[i])], LAMBDA url : Len(url) > 0)

\* .slice(0, length)
Slice(s, length) == SubSeq(s, 1, Min(Len(s), length))

\* peerId cut to 40 characters before the other characters are taken out.
SafePeerCutFirst(peerId) ==
    LET kept == SelectSeq(Slice(peerId, MAX_SAFE_PEER_CHARS),
                          LAMBDA ch : ch \in RoomCodeChars)
    IN IF kept = <<>> THEN <<"g", "u", "e", "s", "t">> ELSE kept

\* peerId.replace(/[^a-zA-Z0-9_-]/g, "").slice(0, 40) || "guest"
safePeer(peerId) ==
    LET kept == Slice(SelectSeq(peerId, LAMBDA ch : ch \in RoomCodeChars),
                      MAX_SAFE_PEER_CHARS)
    IN IF kept = <<>> THEN <<"g", "u", "e", "s", "t">> ELSE kept

\* createHmac("sha1", secret).update(data).digest("base64")
HmacSha1Base64(secret, data) == [hmac |-> "sha1", key |-> secret, data |-> data]

buildTurnCredentials(config, peerId, now) ==
    LET urls == cleanUrls(config.urls)
        ttlSeconds == Max(MIN_TURN_TTL_SECONDS, config.ttlSeconds)
    IN IF config.sharedSecret = ""
       THEN [urls |-> urls, username |-> <<>>, credential |-> "", ttlSeconds |-> ttlSeconds]
       ELSE LET expiresAtSeconds == (now \div 1000) + ttlSeconds
                username == <<expiresAtSeconds, ":">> \o safePeer(peerId)
            IN [urls |-> urls, username |-> username,
                credential |-> HmacSha1Base64(config.sharedSecret, username),
                ttlSeconds |-> ttlSeconds]

\* ---- calls ----
Repeat(ch, n) == [i \in 1..n |-> ch]

TurnPeerIds ==
    {<<>>, <<"!">>, <<" ", "/">>, <<"p">>, <<"p", "-", "1">>, <<"p", "!", "_", "2">>,
     Repeat("p", MAX_SAFE_PEER_CHARS), Repeat("p", MAX_SAFE_PEER_CHARS + 1),
     <<"!", "/">> \o Repeat("q", MAX_SAFE_PEER_CHARS),
     Repeat("q", MAX_SAFE_PEER_CHARS - 1) \o <<"!", "r", "s">>}

TurnTtls == {0, 29, 30, 31, 600}
TurnInstants == {0, 999, 1000, 1700000123}
TurnUrlLists ==
    {<<>>, << <<"t", "u", "r", "n", ":", "a">> >>,
     << <<" ", "s", "t", "u", "n", ":", "b", " ">>, <<" ">>, <<>> >>}

TurnInit == turnCall = [op |-> "none"]

BuildTurnCredentials ==
    /\ \E urls \in TurnUrlLists, sharedSecret \in {"", "super-secret"},
          ttlSeconds \in TurnTtls, peerId \in TurnPeerIds, now \in TurnInstants :
          LET config == [urls |-> urls, sharedSecret |-> sharedSecret,
                         ttlSeconds |-> ttlSeconds]
          IN turnCall' = [op |-> "buildTurnCredentials", config |-> config,
                          peerId |-> peerId, now |-> now,
                          result |-> buildTurnCredentials(config, peerId, now)]
    /\ UNCHANGED notTurnVars

TurnNext == BuildTurnCredentials

(***************************************************************************)
(* media.ts: getLocalMediaStream                                           *)
(***************************************************************************)

\* What one getUserMedia call can come to: a stream, or a rejection with an
\* error that is or is not a DOMException and carries a name.
Stream(id) == [ok |-> TRUE, stream |-> id]
Rejection(isDomException, name) ==
    [ok |-> FALSE, domException |-> isDomException, name |-> name]

GetUserMediaOutcomes ==
    {Stream("stream1"), Stream("stream2")}
    \cup {Rejection(TRUE, name) :
            name \in {"NotAllowedError", "PermissionDeniedError", "OverconstrainedError",
                      "NotFoundError", "NotReadableError", "AbortError"}}
    \cup {Rejection(FALSE, "NotAllowedError"), Rejection(FALSE, "TypeError")}

\* The browser: whether navigator.mediaDevices and its getUserMedia are there,
\* and what getUserMedia answers to its first and second call.
Browsers ==
    [mediaDevices : BOOLEAN, getUserMedia : BOOLEAN,
     answers : GetUserMediaOutcomes \X GetUserMediaOutcomes]

\* getLocalMediaStream: the constraints it asked for, in order, and its result.
getLocalMediaStream(navigator) ==
    IF ~(navigator.mediaDevices /\ navigator.getUserMedia)
    THEN [requests |-> <<>>, result |-> Thrown("MEDIA_UNSUPPORTED")]
    ELSE LET answer == navigator.answers[1]
             requests == <<"targetMediaConstraints">>
         IN IF answer.ok
            THEN [requests |-> requests, result |-> Returned(answer.stream)]
            ELSE IF /\ answer.domException
                    /\ answer.name \in {"NotAllowedError", "PermissionDeniedError"}
                 THEN [requests |-> requests, result |-> Thrown("DEVICE_DENIED")]
                 ELSE [requests |-> requests, result |-> Thrown("MEDIA_UNSUPPORTED")]

MediaInit == mediaCall = [op |-> "none"]

GetLocalMediaStream ==
    /\ \E navigator \in Browsers :
          /\ navigator.getUserMedia => navigator.mediaDevices
          /\ mediaCall' = [op |-> "getLocalMediaStream", navigator |-> navigator]
                          @@ getLocalMediaStream(navigator)
    /\ UNCHANGED notMediaVars

MediaNext == GetLocalMediaStream

(***************************************************************************)
(* webrtcCallManager.ts: collectAndBroadcastStats on an interval that does *)
(* not wait for the tick before                                            *)
(***************************************************************************)

\* Ticks in flight at once.
MaxOverlap == 3

\* One good sample, one neither good nor bad, one bad.
StatsSnapshots ==
    {[packetLossPct |-> GOOD_PACKET_LOSS_PCT, rttMs |-> GOOD_RTT_MS, jitterMs |-> GOOD_JITTER_MS],
     [packetLossPct |-> GOOD_PACKET_LOSS_PCT + 1, rttMs |-> GOOD_RTT_MS, jitterMs |-> GOOD_JITTER_MS],
     [packetLossPct |-> GOOD_PACKET_LOSS_PCT, rttMs |-> BAD_RTT_MS, jitterMs |-> GOOD_JITTER_MS]}

isActiveQualityState(state) == state \in {HD_1080, HD_720, SD_480}

\* The decision with the controller left as evaluate() left it.
QualityDecisionNotPinned(active, state, count, snapshot) ==
    LET r == evaluate(state, count, snapshot)
        nextIndex == Min(Len(PROFILE_RECOVERY_ORDER) - 1, RecoveryIndexOf(active) + 1)
    IN IF r.changed /\ r.nextState = RECOVERING
       THEN [activeQuality |-> PROFILE_RECOVERY_ORDER[nextIndex + 1],
             state |-> r.state, count |-> r.count,
             changed |-> TRUE, recovering |-> TRUE]
       ELSE [activeQuality |-> IF r.changed /\ isActiveQualityState(r.nextState)
                               THEN r.nextState ELSE active,
             state |-> r.state, count |-> r.count,
             changed |-> r.changed, recovering |-> FALSE]

\* collectAndBroadcastStats from evaluate() to the await of
\* applyQualityProfile, which runs without a break: activeQuality and the
\* controller's fields after it, whether a profile is to be applied, and
\* whether the controller reported RECOVERING.
QualityDecisionApplied(active, state, count, snapshot) ==
    LET r == evaluate(state, count, snapshot)
        nextIndex == Min(Len(PROFILE_RECOVERY_ORDER) - 1, RecoveryIndexOf(active) + 1)
    IN IF r.changed /\ r.nextState = RECOVERING
       THEN LET next == PROFILE_RECOVERY_ORDER[nextIndex + 1]
                f == forceState(r.state, r.count, next)
            IN [activeQuality |-> next, state |-> f.state, count |-> f.count,
                changed |-> TRUE, recovering |-> TRUE]
       ELSE [activeQuality |-> IF r.changed /\ isActiveQualityState(r.nextState)
                               THEN r.nextState ELSE active,
             state |-> r.state, count |-> r.count,
             changed |-> r.changed, recovering |-> FALSE]

NoTick == [op |-> "none"]

StatsInit ==
    statsLoop = [running |-> FALSE, started |-> FALSE, atGetStats |-> 0, applying |-> 0,
                 decided |-> NoTick, completed |-> NoTick]

\* startStatsLoop(), once the connection is up.
StartStatsLoop ==
    /\ ~statsLoop.started
    /\ statsLoop' = [statsLoop EXCEPT !.running = TRUE, !.started = TRUE]
    /\ UNCHANGED <<qualityVars, activeQuality, notStatsVars>>

\* The interval is due: collectAndBroadcastStats() up to await getStats(),
\* whether the ticks before it have finished or not.
StatsIntervalFires ==
    /\ statsLoop.running
    /\ statsLoop.atGetStats + statsLoop.applying < MaxOverlap
    /\ statsLoop' = [statsLoop EXCEPT !.atGetStats = @ + 1]
    /\ UNCHANGED <<qualityVars, activeQuality, notStatsVars>>

\* getStats() of one tick in flight settles.  A rejection ends the tick; a
\* report is evaluated, and the tick either awaits applyQualityProfile or
\* reports to onStats and is complete.
StatsSampleArrives(snapshot, delivered) ==
    /\ statsLoop.atGetStats > 0
    /\ statsLoop.running => delivered
    /\ IF ~delivered
       THEN /\ statsLoop' = [statsLoop EXCEPT !.atGetStats = @ - 1]
            /\ UNCHANGED <<qualityVars, activeQuality>>
       ELSE LET d == QualityDecisionApplied(activeQuality, qualityState,
                                            stableSampleCount, snapshot)
                r == evaluate(qualityState, stableSampleCount, snapshot)
                isGood == goodNetwork(snapshot) /\ ~badNetwork(snapshot)
                tick == [op |-> "tick", before |-> activeQuality,
                         after |-> d.activeQuality, recovering |-> d.recovering]
            IN /\ isGood => goodRun < MaxGoodRun
               /\ qualityState' = d.state
               /\ stableSampleCount' = d.count
               /\ goodRun' = IF isGood THEN goodRun + 1 ELSE 0
               /\ lastCall' =
                      IF d.recovering
                      THEN [op |-> "forceState", target |-> d.activeQuality,
                            before |-> r.state, countBefore |-> r.count,
                            runBefore |-> goodRun + 1,
                            nextState |-> d.state, changed |-> r.state # d.state]
                      ELSE [op |-> "evaluate", snapshot |-> snapshot,
                            before |-> qualityState, countBefore |-> stableSampleCount,
                            runBefore |-> goodRun,
                            nextState |-> r.nextState, changed |-> r.changed]
               /\ activeQuality' = d.activeQuality
               /\ statsLoop' =
                      [statsLoop EXCEPT
                          !.atGetStats = @ - 1,
                          !.applying = IF d.changed THEN @ + 1 ELSE @,
                          !.decided = tick,
                          !.completed = IF d.changed THEN @
                                        ELSE [op |-> "onStats",
                                              qualityState |-> d.activeQuality]]
    /\ UNCHANGED notStatsVars

\* applyQualityProfile() of one tick settles (its failures are swallowed):
\* onStats with the activeQuality of that moment.
ProfileApplied ==
    /\ statsLoop.applying > 0
    /\ statsLoop' = [statsLoop EXCEPT
                        !.applying = @ - 1,
                        !.completed = [op |-> "onStats", qualityState |-> activeQuality]]
    /\ UNCHANGED <<qualityVars, activeQuality, notStatsVars>>

\* close(): the interval is cleared; the ticks in flight go on.
StatsLoopCleared ==
    /\ statsLoop.running
    /\ statsLoop' = [statsLoop EXCEPT !.running = FALSE]
    /\ UNCHANGED <<qualityVars, activeQuality, notStatsVars>>

StatsSampleArrivesStep ==
    \E snapshot \in StatsSnapshots, delivered \in BOOLEAN :
        StatsSampleArrives(snapshot, delivered)

StatsNext ==
    \/ StartStatsLoop
    \/ StatsIntervalFires
    \/ StatsSampleArrivesStep
    \/ ProfileApplied
    \/ StatsLoopCleared

(***************************************************************************)
(* signalPacket.ts: parseChunkLine and the grouping of the chunks in       *)
(* decodeEnvelopeFromTransport, with "<partIndex>/<partTotal>" kept as the *)
(* text a pasted line holds                                                *)
(***************************************************************************)

\* Lines in one pasted text.
MaxChunkLines == 2

\* Number(token) in halves, so that 1.5 is 3; NaN apart.
NumberOf(token) ==
    CASE token = "1" -> [nan |-> FALSE, halves |-> 2]
      [] token = "01" -> [nan |-> FALSE, halves |-> 2]
      [] token = "2" -> [nan |-> FALSE, halves |-> 4]
      [] token = "3" -> [nan |-> FALSE, halves |-> 6]
      [] token = "1.5" -> [nan |-> FALSE, halves |-> 3]
      [] token = "2.5" -> [nan |-> FALSE, halves |-> 5]
      [] token = "0" -> [nan |-> FALSE, halves |-> 0]
      [] token = "" -> [nan |-> FALSE, halves |-> 0]
      [] OTHER -> [nan |-> TRUE, halves |-> 0]

IndexTokens == {"1", "01", "2", "3", "1.5", "2.5", "0", "", "x"}
TotalTokens == {"1", "2", "3", "2.5", "x"}

\* "P2PV1|<packetId>|<index>/<total>|<payload>" with a well-formed packetId;
\* the payload is named after its line.
ChunkLines ==
    [packetId : {"00000000000000aa", "00000000000000bb"},
     index : IndexTokens, total : TotalTokens]

PayloadOf(line) == <<line.packetId, line.index, line.total>>

\* parseChunkLine from the split of "<index>/<total>" on.
ParseChunkLine(line) ==
    LET partIndex == NumberOf(line.index)
        partTotal == NumberOf(line.total)
    IN IF \/ partIndex.nan \/ partTotal.nan
          \/ partIndex.halves < 2 \/ partTotal.halves < 2
          \/ partIndex.halves > partTotal.halves
       THEN Thrown("Packet chunk index is out of range.")
       ELSE Returned([packetId |-> line.packetId, partIndex |-> partIndex.halves,
                      partTotal |-> partTotal.halves, payload |-> PayloadOf(line)])

\* decodeEnvelopeFromTransport from lines.map(parseChunkLine) to the join of
\* the payloads: the payloads in the order they are joined, or the error.
AssembleChunks(lines) ==
    LET results == [i \in 1..Len(lines) |-> ParseChunkLine(lines[i])]
        bad == {i \in 1..Len(lines) : ~results[i].ok}
    IN IF bad # {} THEN results[CHOOSE i \in bad : \A j \in bad : i <= j]
       ELSE LET chunks == [i \in 1..Len(lines) |-> results[i].value]
                packetId == chunks[1].packetId
                total == chunks[1].partTotal
                \* uniqueByIndex: the keys, and the chunk set last for a key
                keys == {chunks[i].partIndex : i \in 1..Len(chunks)}
                lastFor(key) ==
                    LET at == {i \in 1..Len(chunks) : chunks[i].partIndex = key}
                    IN chunks[CHOOSE i \in at : \A j \in at : j <= i]
                \* the keys below a key: its place after the sort, from 0
                placeOf(key) == Cardinality({other \in keys : other < key})
            IN IF \E i \in 1..Len(chunks) :
                     chunks[i].packetId # packetId \/ chunks[i].partTotal # total
               THEN Thrown("Packet chunks do not belong together.")
               ELSE IF 2 * Cardinality(keys) # total
               THEN Thrown("Packet is missing one or more chunks.")
               ELSE Returned([place \in 1..Cardinality(keys) |->
                                 lastFor(CHOOSE key \in keys : placeOf(key) = place - 1).payload])

ChunksInit == chunkCall = [op |-> "none"]

\* decodeEnvelopeFromTransport(text) on a text of one to MaxChunkLines lines.
\* A call depends on no call before it, so one call is followed.
AssembleChunkLines ==
    /\ chunkCall.op = "none"
    /\ \E n \in 1..MaxChunkLines : \E lines \in [1..n -> ChunkLines] :
          chunkCall' = [op |-> "decodeEnvelopeFromTransport", lines |-> lines,
                        assembled |-> AssembleChunks(lines)]
    /\ UNCHANGED notChunksVars

ChunksNext == AssembleChunkLines

(***************************************************************************)
(* Online mode: the call page of the host, the call pages of the guests    *)
(* that come and go, and the broker's sessions of their room               *)
(***************************************************************************)

\* Visits of a guest to the room, one after the other.
MaxGuestVisits == 3

PageRoles == {"host", "guest"}

\* crypto.randomUUID() of a page: one for the host's page, one for each visit.
GuestPeerId(visit) ==
    CASE visit = 1 -> "g1" [] visit = 2 -> "g2" [] visit = 3 -> "g3" [] OTHER -> "g4"

NoPage(role) ==
    [role |-> role, peerId |-> "", socket |-> "none", signalingState |-> "stable",
     offerBusy |-> FALSE, offerAt |-> "idle", remoteAt |-> "idle", joinerPeerId |-> Null]

\* The page when setup() has made its RTCPeerConnection and its WebSocket.
NewPage(role, peerId) == [NoPage(role) EXCEPT !.peerId = peerId, !.socket = "open"]

\* createAndSendOffer() up to await peerConnection.createOffer()
createAndSendOffer(page) ==
    IF page.offerBusy THEN page
    ELSE IF page.signalingState # "stable" THEN page
    ELSE [page EXCEPT !.offerBusy = TRUE, !.offerAt = "createOffer"]

\* socket.onmessage up to its first await, for the frames of the negotiation.
onmessage(page, incoming) ==
    CASE incoming.type = "session-joined" ->
            IF incoming.participantCount > 1 /\ page.role = "host"
            THEN createAndSendOffer(page) ELSE page
      [] incoming.type = "peer-joined" ->
            LET noted == [page EXCEPT !.joinerPeerId = Some(incoming.fromPeerId)]
            IN IF page.role = "host" THEN createAndSendOffer(noted) ELSE noted
      [] incoming.type = "offer" /\ page.role = "guest" ->
            [page EXCEPT !.joinerPeerId = Some(incoming.fromPeerId),
                         !.remoteAt = "answering"]
      [] incoming.type = "answer" /\ page.role = "host" ->
            IF page.signalingState # "have-local-offer" THEN page
            ELSE [page EXCEPT !.remoteAt = "applying answer"]
      [] OTHER -> page

\* sendSignal(message): the socket's outgoing frames afterwards.
sendSignal(page, outgoing, message) ==
    IF page.socket # "open" THEN outgoing
    ELSE Append(outgoing, message @@ [sender |-> page.peerId])

OnlineInit ==
    /\ pages = [role \in PageRoles |-> NoPage(role)]
    /\ roomSessions = [sessions |-> <<>>, guestVisits |-> 0, offerRelayed |-> FALSE]
    /\ wires = [toPage |-> [role \in PageRoles |-> <<>>],
                fromPage |-> [role \in PageRoles |-> <<>>]]

\* The frames relayMessage sends, added to the sockets of its targets.
Delivered(toPage, targets, message) ==
    [role \in PageRoles |->
        IF \E i \in 1..Len(targets) : targets[i].role = role
        THEN Append(toPage[role], message) ELSE toPage[role]]

\* A page finishes setup() and the broker admits its socket:
\* onWebSocketConnection registers the session, answers session-joined and
\* tells the other session peer-joined.  A guest comes when the guest before
\* it is gone from the room; the host stays.
Join(role) ==
    /\ pages[role].socket = "none"
    /\ \A i \in 1..Len(roomSessions.sessions) : roomSessions.sessions[i].role # role
    /\ wires.fromPage[role] = <<>>
    /\ role = "guest" => roomSessions.guestVisits < MaxGuestVisits
    /\ LET peerId == IF role = "host" THEN "h"
                     ELSE GuestPeerId(roomSessions.guestVisits + 1)
           sessions == Append(roomSessions.sessions, [peerId |-> peerId, role |-> role])
           sessionJoined == [type |-> "session-joined", fromPeerId |-> peerId,
                             participantCount |-> Len(sessions)]
           peerJoined == [type |-> "peer-joined", fromPeerId |-> peerId]
           own == [wires.toPage EXCEPT ![role] = <<sessionJoined>>]
       IN /\ pages' = [pages EXCEPT ![role] = NewPage(role, peerId)]
          /\ roomSessions' =
                [sessions |-> sessions,
                 guestVisits |-> IF role = "guest" THEN roomSessions.guestVisits + 1
                                 ELSE roomSessions.guestVisits,
                 offerRelayed |-> FALSE]
          /\ wires' = [wires EXCEPT
                          !.toPage = Delivered(own,
                                               relayTargets(<<sessions>>, 1, peerId, Null),
                                               peerJoined)]
    /\ UNCHANGED notOnlineVars

\* "Leave meeting" on the guest's page: the effect's cleanup closes the
\* socket and the peer connection; what the page's handlers awaited is lost.
GuestLeaves ==
    /\ pages["guest"].socket = "open"
    /\ pages' = [pages EXCEPT !["guest"] = NoPage("guest")]
    /\ wires' = [wires EXCEPT
                    !.toPage["guest"] = <<>>,
                    !.fromPage["guest"] = Append(@, [type |-> "close",
                                                     sender |-> pages["guest"].peerId])]
    /\ UNCHANGED roomSessions
    /\ UNCHANGED notOnlineVars

\* The broker takes the next event of a socket: ws.on("close") with
\* removeConnection, or ws.on("message") with relayMessage.
BrokerReceives(role) ==
    /\ wires.fromPage[role] # <<>>
    /\ LET incoming == Head(wires.fromPage[role])
           rest == [wires.fromPage EXCEPT ![role] = Tail(@)]
       IN IF incoming.type = "close"
          THEN LET sessions == PeerMapDelete(roomSessions.sessions, incoming.sender)
                   peerLeft == [type |-> "peer-left", fromPeerId |-> incoming.sender]
               IN /\ roomSessions' = [roomSessions EXCEPT !.sessions = sessions]
                  /\ wires' = [toPage |-> Delivered(wires.toPage, sessions, peerLeft),
                               fromPage |-> rest]
          ELSE LET targets == relayTargets(<<roomSessions.sessions>>, 1, incoming.sender,
                                           incoming.toPeerId)
                   relayed == [type |-> incoming.type, fromPeerId |-> incoming.sender]
               IN /\ roomSessions' =
                        [roomSessions EXCEPT
                            !.offerRelayed =
                                \/ @
                                \/ /\ incoming.type = "offer"
                                   /\ \E i \in 1..Len(targets) : targets[i].role = "guest"]
                  /\ wires' = [toPage |-> Delivered(wires.toPage, targets, relayed),
                               fromPage |-> rest]
    /\ UNCHANGED pages
    /\ UNCHANGED notOnlineVars

\* socket.onmessage for the next frame, up to its first await.
PageHandlesFrame(role) ==
    /\ pages[role].socket = "open"
    /\ wires.toPage[role] # <<>>
    /\ pages' = [pages EXCEPT ![role] = onmessage(@, Head(wires.toPage[role]))]
    /\ wires' = [wires EXCEPT !.toPage[role] = Tail(@)]
    /\ UNCHANGED roomSessions
    /\ UNCHANGED notOnlineVars

\* createAndSendOffer(): createOffer() resolves, setLocalDescription(offer) starts.
OfferCreated(role) ==
    /\ pages[role].offerAt = "createOffer"
    /\ pages' = [pages EXCEPT ![role].offerAt = "setLocalDescription"]
    /\ UNCHANGED <<roomSessions, wires>>
    /\ UNCHANGED notOnlineVars

\* createAndSendOffer(): setLocalDescription(offer) resolves; the offer is
\* sent to joinerPeerIdRef.current and offerBusyRef is released.
LocalDescriptionSet(role) ==
    /\ pages[role].offerAt = "setLocalDescription"
    /\ pages' = [pages EXCEPT ![role].offerAt = "idle",
                              ![role].offerBusy = FALSE,
                              ![role].signalingState = "have-local-offer"]
    /\ wires' = [wires EXCEPT
                    !.fromPage[role] =
                        sendSignal(pages[role], @,
                                   [type |-> "offer", toPeerId |-> pages[role].joinerPeerId])]
    /\ UNCHANGED roomSessions
    /\ UNCHANGED notOnlineVars

\* The answer handler: setRemoteDescription(answer) resolves.
AnswerApplied(role) ==
    /\ pages[role].remoteAt = "applying answer"
    /\ pages' = [pages EXCEPT ![role].remoteAt = "idle",
                              ![role].signalingState = "stable"]
    /\ UNCHANGED <<roomSessions, wires>>
    /\ UNCHANGED notOnlineVars

\* The offer handler: setRemoteDescription(offer), createAnswer() and
\* setLocalDescription(answer) have resolved; the answer is sent.
AnswerReady(role) ==
    /\ pages[role].remoteAt = "answering"
    /\ pages' = [pages EXCEPT ![role].remoteAt = "idle",
                              ![role].signalingState = "stable"]
    /\ wires' = [wires EXCEPT
                    !.fromPage[role] =
                        sendSignal(pages[role], @, [type |-> "answer", toPeerId |-> Null])]
    /\ UNCHANGED roomSessions
    /\ UNCHANGED notOnlineVars

JoinStep == \E role \in PageRoles : Join(role)
BrokerReceivesStep == \E role \in PageRoles : BrokerReceives(role)
PageHandlesFrameStep == \E role \in PageRoles : PageHandlesFrame(role)
OfferCreatedStep == \E role \in PageRoles : OfferCreated(role)
LocalDescriptionSetStep == \E role \in PageRoles : LocalDescriptionSet(role)
AnswerAppliedStep == \E role \in PageRoles : AnswerApplied(role)
AnswerReadyStep == \E role \in PageRoles : AnswerReady(role)

OnlineNext ==
    \/ JoinStep
    \/ GuestLeaves
    \/ BrokerReceivesStep
    \/ PageHandlesFrameStep
    \/ OfferCreatedStep
    \/ LocalDescriptionSetStep
    \/ AnswerAppliedStep
    \/ AnswerReadyStep
EvaluateStep ==
    /\ \E snapshot \in Snapshots : Evaluate(snapshot)
    /\ UNCHANGED notQualityVars

ForceStateStep ==
    /\ \E target \in QualityStates : ForceState(target)
    /\ UNCHANGED notQualityVars

QualityEvalNext == EvaluateStep

QualityNext ==
    \/ EvaluateStep
    \/ ForceStateStep
    \/ CompleteRecovery

Init == QualityInit /\ BrokerInit /\ CodecInit /\ CallInit /\ LimiterInit /\ AppInit /\ CryptoInit /\ HandshakeInit /\ DiagInit /\ InboxInit /\ ControlsInit /\ TurnInit /\ MediaInit /\ StatsInit /\ ChunksInit /\ OnlineInit

\* The rendezvous broker under every interleaving of its handlers and timers.
SpecBroker == Init /\ [][BrokerNext]_vars

\* The broker with its clock and its interval timer running: Date.now() keeps
\* advancing and setInterval keeps calling the cleanup callback, so neither
\* step is postponed for ever.  Requests and socket events carry no such
\* promise: a client may stay silent and connected.
SpecBrokerLive ==
    Init /\ [][BrokerNext]_vars /\ WF_vars(Tick) /\ WF_vars(CleanupTimer)

\* The broker at one instant, with three sockets alive at the same time.
SpecBrokerCrowd == Init /\ [][BrokerCrowdNext]_vars

\* The broker relaying negotiation frames between the sessions of a room,
\* with the order of arrivals and of relayed frames kept.
SpecBrokerRelay == Init /\ [][BrokerRelayNext]_vars

\* The quality controller driven by evaluate() alone, from its constructor state.
SpecQualityEval == Init /\ [][QualityEvalNext]_vars

\* The quality controller under every call sequence of its public methods.
SpecQuality == Init /\ [][QualityNext]_vars

\* One signal packet from createSignalEnvelope to decrypt, as the clock moves.
SpecCodec == Init /\ [][CodecNext]_vars


\* One call controller from its construction to close(), with its timers,
\* the transport's events and the clock.
SpecCall == Init /\ [][CallNext]_vars

\* The same controller through negotiation and candidate gathering, on a
\* finer clock.
SpecCallGather == Init /\ [][CallGatherNext]_vars

\* One RateLimiter under every sequence of allow and prune calls, as the
\* clock moves.
SpecLimiter == Init /\ [][LimiterNext]_vars

\* The App component's join and apply-answer handlers, one flow at a time
\* (the buttons are disabled while busy), as the clock moves.
SpecApp == Init /\ [][AppNext]_vars

\* decryptJsonPayload called on blobs sealed under every combination of
\* passphrase, room code and associated data and damaged in every modelled way.
SpecCrypto == Init /\ [][CryptoNext]_vars

\* Hosts and joiners handing each other offer and answer payloads in every order.
SpecHandshake == Init /\ [][HandshakeNext]_vars

\* One DiagnosticsLog fed local and remote events with timestamps of every
\* order while the clock moves.
SpecDiag == Init /\ [][DiagNext]_vars

\* Frames of every kind arriving on the chat and diag channels of one controller.
SpecInbox == Init /\ [][InboxNext]_vars

\* One controller toggling its tracks and sending chat while its chat channel
\* opens and closes and the peer receives what was sent.
SpecControls == Init /\ [][ControlsNext]_vars

\* buildTurnCredentials on every combination of the sample configurations,
\* peer ids and instants.
SpecTurn == Init /\ [][TurnNext]_vars

\* getLocalMediaStream in every sample browser.
SpecMedia == Init /\ [][MediaNext]_vars

\* The stats loop of one call controller, its ticks free to overlap.
SpecStats == Init /\ [][StatsNext]_vars

\* decodeEnvelopeFromTransport on pasted chunk lines of every sample form.
SpecChunks == Init /\ [][ChunksNext]_vars

\* One room in online mode: the host's page, the guest's visits, the broker.
SpecOnline == Init /\ [][OnlineNext]_vars

\* The same with everything that runs by itself running: the broker handles
\* the events of its sockets, a page handles the frames it was sent, and the
\* browser settles the promises a handler awaits.  Joining and leaving are
\* up to the users.
SpecOnlineLive ==
    /\ Init /\ [][OnlineNext]_vars
    /\ WF_vars(BrokerReceivesStep)
    /\ WF_vars(PageHandlesFrameStep)
    /\ WF_vars(OfferCreatedStep)
    /\ WF_vars(LocalDescriptionSetStep)
    /\ WF_vars(AnswerAppliedStep)
    /\ WF_vars(AnswerReadyStep)
(***************************************************************************)
(* Claims about the quality controller                                     *)
(***************************************************************************)

\* A bad and a good sample, as the claims read them.
IsBadSample(s) == s.packetLossPct >= 5 \/ s.rttMs >= 220 \/ s.jitterMs >= 30

IsGoodSample(s) == s.packetLossPct <= 2 /\ s.rttMs <= 130 /\ s.jitterMs <= 16

\* C8 (as claimed): a bad sample fed to evaluate leaves the state where it is
\* or moves it exactly one rung down the ladder HD_1080 -> HD_720 -> SD_480;
\* it never skips a rung and never yields a higher-quality state.
C8_BadSampleOneRungDown ==
    (lastCall.op = "evaluate" /\ IsBadSample(lastCall.snapshot)) =>
        \/ qualityState = lastCall.before
        \/ lastCall.before = HD_1080 /\ qualityState = HD_720
        \/ lastCall.before = HD_720 /\ qualityState = SD_480

\* C9: evaluate reports (RECOVERING, changed) only on a good sample that is
\* at least the 8th consecutive good one, with the counter at 7 and the state
\* below HD_1080; a sample that is not good zeroes the counter; eight good
\* samples at HD_1080 change nothing.
C9_RecoveryNeedsEightGood ==
    lastCall.op = "evaluate" =>
        /\ (lastCall.nextState = RECOVERING /\ lastCall.changed) =>
              /\ IsGoodSample(lastCall.snapshot)
              /\ lastCall.runBefore + 1 >= 8
              /\ lastCall.countBefore = 7
              /\ lastCall.before \in {HD_720, SD_480}
              /\ qualityState = RECOVERING
        /\ ~IsGoodSample(lastCall.snapshot) => stableSampleCount = 0
        /\ (IsGoodSample(lastCall.snapshot) /\ lastCall.countBefore < 7) =>
              /\ ~lastCall.changed
              /\ qualityState = lastCall.before
              /\ stableSampleCount = lastCall.countBefore + 1
        /\ (IsGoodSample(lastCall.snapshot) /\ lastCall.countBefore = 7
                /\ lastCall.before = HD_1080) =>
              /\ ~lastCall.changed
              /\ qualityState = HD_1080

\* C9 witness: the 8th consecutive good sample below HD_1080 reported RECOVERING.
C9_Witness ==
    /\ lastCall.op = "evaluate"
    /\ lastCall.nextState = RECOVERING
    /\ lastCall.changed
    /\ lastCall.before = SD_480
    /\ lastCall.runBefore = 7

\* C10: a bad sample zeroes the good-sample counter; from HD_1080 it yields
\* HD_720 and from HD_720 it yields SD_480, reported with changed = TRUE; at
\* SD_480 the state stays and changed = FALSE.
C10_BadSampleStepsDown ==
    (lastCall.op = "evaluate" /\ IsBadSample(lastCall.snapshot)) =>
        /\ stableSampleCount = 0
        /\ lastCall.before = HD_1080 =>
              qualityState = HD_720 /\ lastCall.nextState = HD_720 /\ lastCall.changed
        /\ lastCall.before = HD_720 =>
              qualityState = SD_480 /\ lastCall.nextState = SD_480 /\ lastCall.changed
        /\ lastCall.before = SD_480 =>
              qualityState = SD_480 /\ lastCall.nextState = SD_480 /\ ~lastCall.changed

\* C10 witness: a sample that is bad only by reaching the packet-loss
\* threshold arrived at HD_720 with a non-zero counter and stepped to SD_480.
C10_Witness ==
    /\ lastCall.op = "evaluate"
    /\ lastCall.snapshot.packetLossPct = 5
    /\ lastCall.snapshot.rttMs < 220
    /\ lastCall.snapshot.jitterMs < 30
    /\ lastCall.before = HD_720
    /\ lastCall.countBefore > 0
    /\ qualityState = SD_480

(***************************************************************************)
(* Rendezvous broker: admission and relay properties.                      *)
(***************************************************************************)
\* The peers registered as sessions of a room.
AdmittedPeers(roomId) ==
    {connectionsByRoom[roomId][i].peerId : i \in 1..Len(connectionsByRoom[roomId])}

\* C1: a room never has more than two distinct peers admitted at the same
\* time, whatever peerId strings the upgrade handler accepted.
C1_AtMostTwoPeersAdmitted ==
    \A roomId \in DOMAIN connectionsByRoom : Cardinality(AdmittedPeers(roomId)) <= 2

\* C5: a role slot that holds peer A never comes to hold a different peer B
\* in one step: a step that empties the slot lies in between.
C5_NoRoleSwapWithoutRemove ==
    [][\A roomId \in (DOMAIN rooms) \cap (DOMAIN rooms') :
          /\ (rooms[roomId].hostPeerId # Null /\ rooms'[roomId].hostPeerId # Null)
                => rooms'[roomId].hostPeerId = rooms[roomId].hostPeerId
          /\ (rooms[roomId].guestPeerId # Null /\ rooms'[roomId].guestPeerId # Null)
                => rooms'[roomId].guestPeerId = rooms[roomId].guestPeerId]_vars

\* The frames a message handler relayed, among everything it sent.
RelayedSends ==
    IF brokerOut.kind # "message" THEN {}
    ELSE {brokerOut.sent[i] : i \in {j \in 1..Len(brokerOut.sent) :
              brokerOut.sent[j].msg.type \in {"offer", "answer", "ice-candidate", "chat"}}}

\* C6: a relayed message reaches only sessions of the sender's room other
\* than the sender, and only the peer named by a string toPeerId of the
\* incoming frame when there is one.
C6_RelayOnlyToAddressees ==
    \A sent \in RelayedSends :
        /\ sent.to.roomId = brokerOut.conn.c.roomId
        /\ sent.to.peerId # brokerOut.conn.c.peerId
        /\ brokerOut.frame.toPeerId # Null
              => sent.to.peerId \in brokerOut.frame.toPeerId

\* C7: every relayed frame names as fromPeerId the peerId the sending session
\* was admitted under and as roomId that session's room, whatever the sender
\* wrote in those fields of its frame.
C7_RelayedFrameNamesSender ==
    \A sent \in RelayedSends :
        /\ sent.msg.fromPeerId = {brokerOut.conn.c.peerId}
        /\ sent.msg.roomId = {brokerOut.conn.c.roomId}

\* A frame claiming another sender and another room was relayed to a peer.
C7_Witness ==
    /\ RelayedSends # {}
    /\ brokerOut.frame.fromPeerId # Null
    /\ brokerOut.frame.fromPeerId # {brokerOut.conn.c.peerId}
    /\ brokerOut.frame.roomId # Null
    /\ brokerOut.frame.roomId # {brokerOut.conn.c.roomId}


\* A room of the store whose expiry instant has passed while sessions are
\* registered for it.
ExpiredWithSessions(roomId) ==
    /\ roomId \in DOMAIN rooms
    /\ rooms[roomId].expiresAt <= clock
    /\ roomId \in DOMAIN connectionsByRoom

\* C14: once a room has expired with sessions registered for it, the cleanup
\* timer eventually closes them and forgets their registrations, whatever
\* room-status lookups and join attempts arrive before its next tick.
C14_ExpiredRoomSessionsClosed ==
    \A roomId \in RoomIds :
        ExpiredWithSessions(roomId) ~> (roomId \notin DOMAIN connectionsByRoom)

\* Instants at which the room store may be asked, up to past every expiry.
Instants == 0..(MaxClock + RoomTtl + 1)

\* Roles a caller of validateJoin may pass.
RoleValues == {"host", "guest", "viewer"}

\* C15: a room is active exactly while now < expiresAt, where expiresAt is
\* the creation time plus the TTL: at such an instant getActiveRoom returns
\* the room and leaves the store alone, from expiresAt on it returns null and
\* evicts the room, and validateJoin accepts nobody; the room-status and
\* upgrade handlers answer accordingly.
C15_ActiveExactlyBeforeExpiry ==
    /\ \A roomId \in DOMAIN rooms :
          /\ rooms[roomId].expiresAt = rooms[roomId].createdAt + RoomTtl
          /\ \A now \in Instants :
                LET active == getActiveRoom(rooms, roomId, now) IN
                /\ IF now < rooms[roomId].expiresAt
                   THEN active.room = Some(rooms[roomId]) /\ active.rooms = rooms
                   ELSE /\ active.room = Null
                        /\ active.rooms = MapDelete(rooms, roomId)
                /\ \A peerId \in PeerIds, role \in RoleValues :
                      validateJoin(rooms, roomId, peerId, role, now).ok
                          => now < rooms[roomId].expiresAt
    /\ (brokerOut.kind = "roomStatus" /\ brokerOut.status = 200)
          => /\ brokerOut.roomId \in DOMAIN rooms
             /\ clock < rooms[brokerOut.roomId].expiresAt
    /\ (brokerOut.kind = "upgrade" /\ brokerOut.status = 101)
          => \A roomId \in sanitizeRoomId(brokerOut.request.roomId) :
                roomId \in DOMAIN rooms /\ clock < rooms[roomId].expiresAt

\* A join arrived at the very instant expiresAt of the only room: it was
\* answered 410 and the room was evicted.
C15_Witness ==
    /\ brokerOut.kind = "upgrade"
    /\ brokerOut.status = 410
    /\ clock = RoomTtl
    /\ rooms = <<>>

\* peerIds a third caller may bring: those the sessions use and one more.
ThirdPeerIds == PeerIds \cup {"c"}

\* A room whose host slot and guest slot are held by two distinct peers.
BothSlotsHeld(roomId) ==
    /\ roomId \in DOMAIN rooms
    /\ rooms[roomId].hostPeerId # Null
    /\ rooms[roomId].guestPeerId # Null
    /\ rooms[roomId].hostPeerId # rooms[roomId].guestPeerId

\* C16: while the host slot and the guest slot of an active room are held by
\* two distinct peers, validateJoin for any third distinct peerId answers
\* ROOM_FULL, whichever of the two roles the third peer asks for.
C16_ThirdPeerGetsRoomFull ==
    \A roomId \in DOMAIN rooms :
        (BothSlotsHeld(roomId) /\ clock < rooms[roomId].expiresAt)
            => \A peerId \in ThirdPeerIds, role \in {"host", "guest"} :
                  (Some(peerId) # rooms[roomId].hostPeerId
                   /\ Some(peerId) # rooms[roomId].guestPeerId)
                      => validateJoin(rooms, roomId, peerId, role, clock).code = "ROOM_FULL"

\* The slot of a room that a role names.
SlotOf(roomId, role) ==
    IF role = "host" THEN rooms[roomId].hostPeerId ELSE rooms[roomId].guestPeerId

\* C16, as the store answers: while the host slot and the guest slot of an
\* active room are held by two distinct peers, validateJoin for a third
\* distinct peerId never answers ROOM_FULL; it answers ROLE_TAKEN whenever the
\* slot of the role asked for holds a non-empty peerId.
C16_ThirdPeerGetsRoleTaken ==
    \A roomId \in DOMAIN rooms :
        (BothSlotsHeld(roomId) /\ clock < rooms[roomId].expiresAt)
            => \A peerId \in ThirdPeerIds, role \in {"host", "guest"} :
                  (Some(peerId) # rooms[roomId].hostPeerId
                   /\ Some(peerId) # rooms[roomId].guestPeerId)
                      => LET result == validateJoin(rooms, roomId, peerId, role, clock) IN
                         /\ result.code # "ROOM_FULL"
                         /\ Truthy(SlotOf(roomId, role)) => result.code = "ROLE_TAKEN"

\* A third peer asked to join a room held by two peers with non-empty
\* peerIds and was turned away with 409.
C16_Witness ==
    /\ BothSlotsHeld(1)
    /\ Truthy(rooms[1].hostPeerId)
    /\ Truthy(rooms[1].guestPeerId)
    /\ clock < rooms[1].expiresAt
    /\ brokerOut.kind = "upgrade"
    /\ brokerOut.status = 409
    /\ Some(brokerOut.request.peerId) # rooms[1].hostPeerId
    /\ Some(brokerOut.request.peerId) # rooms[1].guestPeerId

\* The slot a role names in a room of a store, and the other role.
SlotIn(rs, roomId, role) ==
    IF role = "host" THEN rs[roomId].hostPeerId ELSE rs[roomId].guestPeerId

OtherRole(role) == IF role = "host" THEN "guest" ELSE "host"

\* In store `after`, reached from `before` by removing the holder of `role`:
\* the other slot is as it was (or empty, when the same peer held both
\* roles), and while the room is active any other peer is accepted for the
\* role.
RoleFreedFor(before, after, roomId, role, now) ==
    /\ SlotIn(after, roomId, OtherRole(role)) =
          (IF SlotIn(before, roomId, OtherRole(role)) = SlotIn(before, roomId, role)
           THEN Null ELSE SlotIn(before, roomId, OtherRole(role)))
    /\ now < after[roomId].expiresAt
          => \A peerId \in ThirdPeerIds :
                Some(peerId) # SlotIn(before, roomId, role)
                    => validateJoin(after, roomId, peerId, role, now).ok

\* C17: once the peer holding a role has been removed, by removeParticipant
\* or by its session closing or failing, validateJoin accepts a new peer for
\* that role while the room is active, and the slot of the peer that remains
\* is untouched.
C17_FreedRoleAdmitsNewPeer ==
    [][/\ \A roomId \in DOMAIN rooms, role \in {"host", "guest"} :
             SlotIn(rooms, roomId, role) # Null
                 => RoleFreedFor(rooms,
                        removeParticipant(rooms, roomId, ValueOf(SlotIn(rooms, roomId, role))),
                        roomId, role, clock)
       /\ \A roomId \in (DOMAIN rooms) \cap (DOMAIN rooms'), role \in {"host", "guest"} :
             (SlotIn(rooms, roomId, role) # Null /\ SlotIn(rooms', roomId, role) = Null)
                 => RoleFreedFor(rooms, rooms', roomId, role, clock')]_vars

\* The session of one of two peers of an active room has just closed: its
\* slot is empty and the other peer still holds its own.
C17_Witness ==
    /\ brokerOut.kind = "close"
    /\ 1 \in DOMAIN rooms
    /\ clock < rooms[1].expiresAt
    /\ SlotIn(rooms, 1, brokerOut.conn.c.role) = Null
    /\ SlotIn(rooms, 1, OtherRole(brokerOut.conn.c.role)) # Null
    /\ brokerOut.sent # <<>>

\* The sends of the last event that reached the session of a peer, by type.
SendsTo(peerId, type) ==
    {i \in 1..Len(brokerOut'.sent) :
        /\ brokerOut'.sent[i].to.peerId = peerId
        /\ brokerOut'.sent[i].msg.type = type}

\* An accepted upgrade: the participant is in the room record, the new
\* session got one session-joined that counts the occupied slots, its own
\* among them, every other open session registered in the room got one
\* peer-joined with the new peer's role, and nothing else was sent.
AcceptedUpgradeNotifies ==
    LET request == brokerOut'.request
        roomId == ValueOf(sanitizeRoomId(request.roomId))
        others == {i \in 1..Len(connectionsByRoom'[roomId]) :
                      /\ connectionsByRoom'[roomId][i].peerId # request.peerId
                      /\ connectionsByRoom'[roomId][i].readyState = "OPEN"}
    IN
    /\ roomId \in DOMAIN rooms'
    /\ SlotIn(rooms', roomId, request.role) = Some(request.peerId)
    /\ Cardinality(SendsTo(request.peerId, "session-joined")) = 1
    /\ \A i \in SendsTo(request.peerId, "session-joined") :
          /\ brokerOut'.sent[i].self
          /\ brokerOut'.sent[i].msg.payload.participantCount >= 1
          /\ brokerOut'.sent[i].msg.payload.participantCount =
                Cardinality({role \in {"host", "guest"} : SlotIn(rooms', roomId, role) # Null})
    /\ \A j \in others :
          /\ Cardinality(SendsTo(connectionsByRoom'[roomId][j].peerId, "peer-joined")) = 1
          /\ \A i \in SendsTo(connectionsByRoom'[roomId][j].peerId, "peer-joined") :
                brokerOut'.sent[i].msg.payload.role = request.role
    /\ Len(brokerOut'.sent) = 1 + Cardinality(others)

\* A rejected upgrade: the room records and the registrations are as they
\* were and nothing was sent.
RejectedUpgradeInert ==
    /\ rooms' = rooms
    /\ connectionsByRoom' = connectionsByRoom
    /\ detached' = detached
    /\ brokerOut'.sent = <<>>

\* C18: every accepted upgrade adds the participant to the room record before
\* it notifies: one session-joined to the new session, whose participantCount
\* counts the new peer, and one peer-joined with the new peer's role to every
\* other session of the room; a rejected join changes no room state and
\* notifies nobody.
C18_UpgradeAddsThenNotifies ==
    [][brokerOut'.kind = "upgrade"
          => IF brokerOut'.status = 101
             THEN AcceptedUpgradeNotifies ELSE RejectedUpgradeInert]_vars

\* The frame types the broker passes on.
RelayTypes == {"offer", "answer", "ice-candidate", "chat"}

\* C19: of the typed frames a session sends, only offer, answer,
\* ice-candidate and chat reach another session; a heartbeat is answered to
\* its sender alone; every other type is answered with one error frame to
\* its sender alone; none of them changes a room record or a registration.
C19_OnlyRelayTypesDelivered ==
    [][(/\ brokerOut'.kind = "message"
        /\ brokerOut'.frame.length <= WEBSOCKET_MAX_PAYLOAD_BYTES
        /\ brokerOut'.frame.parsed = "object"
        /\ brokerOut'.frame.typeIsString)
          => LET frame == brokerOut'.frame
                 sent == brokerOut'.sent
                 open == brokerOut'.conn.c.readyState = "OPEN"
             IN
             /\ rooms' = rooms
             /\ connectionsByRoom' = connectionsByRoom
             /\ detached' = detached
             /\ \A i \in 1..Len(sent) :
                   ~sent[i].self => frame.type \in RelayTypes /\ sent[i].msg.type = frame.type
             /\ frame.type = "heartbeat"
                   => /\ Len(sent) = (IF open THEN 1 ELSE 0)
                      /\ \A i \in 1..Len(sent) : sent[i].self /\ sent[i].msg.type = "heartbeat"
             /\ frame.type \notin RelayTypes \cup {"heartbeat"}
                   => /\ Len(sent) = (IF open THEN 1 ELSE 0)
                      /\ \A i \in 1..Len(sent) : sent[i].self /\ sent[i].msg.type = "error"]_vars

\* With two sessions in its room, a session sent a frame of a type that is
\* not passed on: it alone got an error frame.
C19_Witness ==
    /\ brokerOut.kind = "message"
    /\ brokerOut.frame.parsed = "object"
    /\ brokerOut.frame.type = "peer-left"
    /\ brokerOut.conn.attached
    /\ Len(connectionsByRoom[brokerOut.conn.c.roomId]) = 2
    /\ \A i \in 1..2 : connectionsByRoom[brokerOut.conn.c.roomId][i].readyState = "OPEN"
    /\ Len(brokerOut.sent) = 1
    /\ brokerOut.sent[1].self
    /\ brokerOut.sent[1].msg.type = "error"

\* Is `short` what is left of `long` after dropping some of its elements?
RECURSIVE IsSubsequence(_, _)
IsSubsequence(short, long) ==
    IF short = <<>> THEN TRUE
    ELSE IF long = <<>> THEN FALSE
    ELSE IF Head(short) = Head(long) THEN IsSubsequence(Tail(short), Tail(long))
    ELSE IsSubsequence(short, Tail(long))

\* The types of the frames of a log that satisfy a test, in the log's order.
TypesOf(log, Test(_)) ==
    LET kept == SelectSeq(log, Test) IN [i \in 1..Len(kept) |-> kept[i].type]

\* C20: for every sender and every recipient, the frames of the sender that
\* were relayed to the recipient are, in the order they were sent on, frames
\* of the sender in the order they arrived at the broker: none overtakes
\* another and none is repeated.
C20_RelayKeepsSenderOrder ==
    \A sender \in PeerIds, recipient \in PeerIds :
        IsSubsequence(
            TypesOf(relayLog.delivered,
                    LAMBDA d : d.from = sender /\ d.to = recipient),
            TypesOf(relayLog.arrived, LAMBDA a : a.from = sender))

\* Two frames of one sender reached the same recipient, the offer first.
C20_Witness ==
    \E sender \in PeerIds, recipient \in PeerIds :
        /\ TypesOf(relayLog.arrived, LAMBDA a : a.from = sender)
              = <<"offer", "ice-candidate">>
        /\ TypesOf(relayLog.delivered,
                   LAMBDA d : d.from = sender /\ d.to = recipient)
              = <<"offer", "ice-candidate">>
(***************************************************************************)
(* Signal-packet codec: round trip, tampering and expiry properties.       *)
(***************************************************************************)
\* createSignalEnvelope was called with an offer from the host or an answer
\* from the joiner, the payload being of the packet's type.
WellFormedPacket ==
    /\ packet.input # Null
    /\ \E in \in packet.input :
          /\ in.payload.kind = in.type
          /\ (in.type = "offer" /\ in.senderRole = "host")
                \/ (in.type = "answer" /\ in.senderRole = "joiner")

\* decrypt was called as the packet's type asks, with the room code and the
\* passphrase the packet was made with.
DecryptedAsMade ==
    /\ packet.stage = "decrypted"
    /\ \E in \in packet.input, d \in packet.decrypt :
          d.as = in.type /\ d.roomCode = in.roomCode /\ d.passphrase = in.passphrase

\* C2: a packet that createSignalEnvelope and encodeEnvelopeForTransport made
\* is decoded, and decrypted before expiry with the same room code and
\* passphrase to the identical payload.
C2_RoundTrip ==
    (WellFormedPacket /\ packet.tampered = "none" /\ packet.text # Null) =>
        /\ packet.stage # "decodeFailed"
        /\ DecryptedAsMade =>
              \A in \in packet.input, d \in packet.decrypt, made \in packet.original :
                  d.now <= made.expiresAt
                      => d.result.ok /\ d.result.value = in.payload

\* C3: after a change of one authenticated field, decode followed by decrypt
\* with the right room code and passphrase fails with DECRYPTION_FAILED.
C3_TamperFailsDecryption ==
    (WellFormedPacket /\ packet.tampered # "none") =>
        /\ packet.stage = "decodeFailed" => packet.error = {"DECRYPTION_FAILED"}
        /\ DecryptedAsMade =>
              \A d \in packet.decrypt, made \in packet.original :
                  d.now < made.expiresAt
                      => ~d.result.ok /\ d.result.error = "DECRYPTION_FAILED"

\* C4: decrypt of an envelope as createSignalEnvelope made it, called with
\* that envelope's room code: after expiresAt it rejects with PACKET_EXPIRED,
\* whatever the passphrase, and describeFailure reports EXPIRED_PACKET; up to
\* and including expiresAt no decrypt call is rejected for expiry.
C4_ExpiryRejection ==
    (packet.stage = "decrypted" /\ packet.tampered = "none") =>
        \A d \in packet.decrypt, made \in packet.original :
            /\ (d.now > made.expiresAt
                    /\ d.roomCode \in {made.roomCode, made.roomCode \o <<" ">>})
                  => /\ ~d.result.ok
                     /\ d.result.error = "PACKET_EXPIRED"
                     /\ describeFailure(d.result.error).code = "EXPIRED_PACKET"
            /\ d.now <= made.expiresAt
                  => d.result.ok \/ d.result.error # "PACKET_EXPIRED"

\* An envelope opened one millisecond after expiresAt with the wrong
\* passphrase was rejected as expired.
C4_Witness ==
    /\ packet.stage = "decrypted"
    /\ packet.tampered = "none"
    /\ \E d \in packet.decrypt, made \in packet.original :
          /\ d.now = made.expiresAt + 1
          /\ d.roomCode = made.roomCode
          /\ d.passphrase = PassTwo
          /\ ~d.result.ok
          /\ d.result.error = "PACKET_EXPIRED"


(***************************************************************************)
(* Call controller: close(), the connect watchdog and the gathering wait.  *)
(***************************************************************************)
WatchdogTimers == {t \in timers : t.kind = "connectWatchdog"}

WaitTimers == {t \in timers : t.kind \in {"iceTimeout", "iceSettle"}}

\* C11: once close() has returned, no timer of the controller is armed or
\* gets armed, and the controller produces no stats sample, diagnostics
\* entry or failure report any more.
C11_NothingAfterClose ==
    callTrace.closed => timers = {} /\ callTrace.afterClose = {}

\* C12: at most one watchdog is armed; from the return of the method that
\* armed it until connected is observed it is due exactly 25 s after that
\* return; once connected has been observed (or it has run) none is armed;
\* its callback reports CONNECTION_TIMEOUT exactly if the connection is not
\* connected, so every CONNECTION_TIMEOUT comes 25 s after the return of an
\* attempt during which connected was not observed.
C12_WatchdogReportsTimeout ==
    /\ Cardinality(WatchdogTimers) <= 1
    /\ callTrace.armedFor # Null =>
          \E t \in WatchdogTimers :
              t.due = CONNECTION_TIMEOUT_MS - ValueOf(callTrace.armedFor)
    /\ callTrace.armedFor = Null => WatchdogTimers = {}
    /\ \A r \in callTrace.reports :
          r.code = "CONNECTION_TIMEOUT" => r.armedFor = Some(CONNECTION_TIMEOUT_MS)
    /\ "connectWatchdog" \in callOut =>
          ("onFailure" \in callOut <=> peerConnection.connectionState # "connected")

\* The watchdog has just run on an open controller that was not connected
\* 25 s after its method returned, and reported the timeout.
C12_Witness ==
    /\ ~callTrace.closed
    /\ callOut = {"connectWatchdog", "onFailure"}
    /\ [code |-> "CONNECTION_TIMEOUT", armedFor |-> Some(CONNECTION_TIMEOUT_MS)]
          \in callTrace.reports

\* C13: the wait resolves once; while it is pending the transport has not
\* reported complete, no more than 1500 ms have passed since it began and no
\* more than 250 ms since its last candidate event, and both timers are
\* armed for exactly those instants; it resolves by the settle timer only
\* 250 ms after the last candidate event and by the timeout only at 1500 ms;
\* once resolved, none of its timers or listeners is left.
C13_GatheringWaitResolvesOnce ==
    /\ iceWait.resolved <= 1
    /\ (iceWait.active /\ ~iceWait.done) =>
          /\ iceWait.resolved = 0
          /\ peerConnection.iceGatheringState # "complete"
          /\ iceWait.elapsed <= ICE_GATHER_MAX_WAIT_MS
          /\ iceWait.sinceEvent <= ICE_GATHER_SETTLE_MS
          /\ \E t \in timers : /\ t.kind = "iceTimeout"
                               /\ t.due = ICE_GATHER_MAX_WAIT_MS - iceWait.elapsed
          /\ \E t \in timers : /\ t.kind = "iceSettle"
                               /\ t.due = ICE_GATHER_SETTLE_MS - iceWait.sinceEvent
    /\ iceWait.done =>
          /\ iceWait.resolved = 1
          /\ ~iceWait.listeners
          /\ WaitTimers = {}
          /\ iceWait.resolvedBy = "settle" => iceWait.sinceEvent = ICE_GATHER_SETTLE_MS
          /\ iceWait.resolvedBy = "timeout" => iceWait.elapsed = ICE_GATHER_MAX_WAIT_MS
          /\ iceWait.resolvedBy = "complete" => peerConnection.iceGatheringState = "complete"
          /\ iceWait.resolvedBy = "already complete" => iceWait.elapsed = 0

\* Candidates kept arriving less than 250 ms apart and the wait was resolved
\* by its 1500 ms timeout.
C13_Witness ==
    /\ iceWait.done
    /\ iceWait.resolvedBy = "timeout"
    /\ iceWait.sinceEvent < ICE_GATHER_SETTLE_MS
    /\ localIceCandidates >= 7

(***************************************************************************)
(* RateLimiter                                                             *)
(***************************************************************************)

\* The granted calls of a key that fall in the fixed window opened at `start`.
GrantsInWindow(key, start) ==
    Len(SelectSeq(limiterTrace.grants[key],
                  LAMBDA at : start <= at /\ at < start + limiter.windowMs))

\* C21: in the fixed window that a call opens and that lasts windowMs, at
\* most maxRequests calls of the key are granted and every further call of
\* the window is denied; a call is denied only then, and a denied call
\* leaves the bucket as it was, so the window neither moves nor grows.
C21_FixedWindowCap ==
    /\ \A key \in LimiterKeys :
          \A w \in 1..Len(limiterTrace.opened[key]) :
              GrantsInWindow(key, limiterTrace.opened[key][w]) <= limiter.maxRequests
    /\ limiterTrace.call.op = "allow"
          => LET call == limiterTrace.call
                 windows == limiterTrace.opened[call.key]
                 start == windows[Len(windows)]
             IN /\ ~call.ok => limiter.buckets = call.before
                /\ ~call.ok <=> /\ call.inWindow
                                /\ GrantsInWindow(call.key, start)
                                     - (IF call.ok THEN 1 ELSE 0) >= limiter.maxRequests
                /\ limiter.buckets[call.key].windowStart = start

\* A key used up its window of two instants and was denied in it at the
\* second instant, where another key was granted.
C21_Witness ==
    /\ limiter.made
    /\ limiter.maxRequests = 2
    /\ limiter.windowMs = 2
    /\ limiterTrace.grants = [key \in LimiterKeys |-> IF key = "ip1" THEN <<0, 1>> ELSE <<1>>]
    /\ limiterTrace.call.op = "allow"
    /\ limiterTrace.call.key = "ip1"
    /\ ~limiterTrace.call.ok
    /\ limiterNow = 1

(***************************************************************************)
(* Signal-packet transport text                                            *)
(***************************************************************************)

\* A transport text with its chunk lines rearranged: back to front, and
\* started at line `first`.
ReversedLines(text) ==
    [text EXCEPT !.lines = [i \in 1..Len(@) |-> @[Len(@) + 1 - i]]]

RotatedLines(text, first) ==
    [text EXCEPT !.lines = SubSeq(@, first, Len(@)) \o SubSeq(@, 1, first - 1)]

\* A transport text with line `at` pasted a second time in front of it, and
\* with every line pasted twice.
DuplicatedLine(text, at) ==
    [text EXCEPT !.lines = <<@[at]>> \o @]

DoubledLines(text) == [text EXCEPT !.lines = @ \o @]

\* A transport text without its line `at`.
WithoutLine(text, at) ==
    [text EXCEPT !.lines = SubSeq(@, 1, at - 1) \o SubSeq(@, at + 1, Len(@))]

\* The first and the last line of a text, and a line in its middle.
EndLines(text) == {1, Len(text.lines)}

MiddleLine(text) == (Len(text.lines) + 1) \div 2

\* Is a text within the caps decodeEnvelopeFromTransport puts on its input?
WithinInputCaps(text) ==
    /\ TextLength(text) <= MAX_PACKET_TEXT_CHARS
    /\ Len(text.lines) <= MAX_CHUNK_COUNT

\* C22 (as claimed): a transport text made by encodeEnvelopeForTransport
\* decodes to the same result with its chunk lines in another order and with
\* chunk lines repeated, and fails to decode with any one chunk line taken
\* out.
C22_ChunksReorderedDuplicatedRemoved ==
    packet.stage = "encoded"
        => LET text == ValueOf(packet.text)
               decoded == decodeEnvelopeFromTransport(text)
           IN /\ decodeEnvelopeFromTransport(ReversedLines(text)) = decoded
              /\ decodeEnvelopeFromTransport(RotatedLines(text, MiddleLine(text))) = decoded
              /\ decodeEnvelopeFromTransport(DoubledLines(text)) = decoded
              /\ \A at \in EndLines(text) :
                    /\ decodeEnvelopeFromTransport(DuplicatedLine(text, at)) = decoded
                    /\ ~decodeEnvelopeFromTransport(WithoutLine(text, at)).ok

\* C22 (as the decoder behaves): the same, for the repetitions that leave the
\* text within the decoder's caps on characters and on lines; a text with
\* more repetitions than that is refused.
C22_ChunksWithinCaps ==
    packet.stage = "encoded"
        => LET text == ValueOf(packet.text)
               decoded == decodeEnvelopeFromTransport(text)
               SameIfWithinCaps(repeated) ==
                   IF WithinInputCaps(repeated)
                   THEN decodeEnvelopeFromTransport(repeated) = decoded
                   ELSE ~decodeEnvelopeFromTransport(repeated).ok
           IN /\ decodeEnvelopeFromTransport(ReversedLines(text)) = decoded
              /\ decodeEnvelopeFromTransport(RotatedLines(text, MiddleLine(text))) = decoded
              /\ SameIfWithinCaps(DoubledLines(text))
              /\ \A at \in EndLines(text) :
                    /\ SameIfWithinCaps(DuplicatedLine(text, at))
                    /\ ~decodeEnvelopeFromTransport(WithoutLine(text, at)).ok

\* A text of many chunks that decodes, also back to front and with its last
\* line repeated, but not when every line is repeated.
C22_Witness ==
    /\ packet.stage = "encoded"
    /\ Len(ValueOf(packet.text).lines) > 100
    /\ decodeEnvelopeFromTransport(ValueOf(packet.text)).ok
    /\ decodeEnvelopeFromTransport(ReversedLines(ValueOf(packet.text))).ok
    /\ decodeEnvelopeFromTransport(
           DuplicatedLine(ValueOf(packet.text), Len(ValueOf(packet.text).lines))).ok
    /\ ~WithinInputCaps(DoubledLines(ValueOf(packet.text)))

(***************************************************************************)
(* App component: brute-force slowdown                                     *)
(***************************************************************************)

\* The failed unlocks among `failed` that lie in the 60 seconds ending at `now`.
WithinWindow(failed, now) ==
    SelectSeq(failed, LAMBDA at : at > now - DECRYPT_COOLDOWN_MS)

InCooldownAtChecks ==
    /\ appTrace.out.stage = "checks"
    /\ appTrace.out.now < appTrace.out.cooldownUntil

\* A flow is under way only if its checks found no cooldown.
NoFlowInCooldown ==
    app.busy => /\ appTrace.out.stage = "checks"
                /\ appTrace.out.rejected = ""
                /\ ~(appTrace.out.now < appTrace.out.cooldownUntil)

\* C23 as stated: the failed unlocks of the last 60 seconds are what counts:
\* a cooldown of 60 seconds starts exactly when the fifth of them happens, and
\* while it lasts every join or apply-answer attempt ends in SECURITY_COOLDOWN
\* before the packet text is decoded.
C23_RollingWindowCooldown ==
    /\ appTrace.out.stage = "try" =>
          /\ appTrace.out.cooldownStarted <=>
                 /\ appTrace.out.ending.error = "DECRYPTION_FAILED"
                 /\ Len(WithinWindow(appTrace.out.failed, appTrace.out.now))
                        >= MAX_DECRYPT_FAILS
          /\ appTrace.out.cooldownStarted =>
                 app.decryptCooldownUntil = appTrace.out.now + DECRYPT_COOLDOWN_MS
    /\ InCooldownAtChecks => appTrace.out.rejected = "SECURITY_COOLDOWN"
    /\ NoFlowInCooldown

\* C23, amended: the fifth failed unlock since the last flow that ran to its
\* end or the last cooldown start, however long ago the other four were, starts
\* a cooldown of 60 seconds; while it lasts every join or apply-answer attempt is
\* rejected before the packet text is decoded, with SECURITY_COOLDOWN unless the
\* join's room code and passphrase check or the host's HOST_NOT_READY check
\* rejects it first.
C23_FifthFailureStartsCooldown ==
    /\ appTrace.out.stage = "try" =>
          /\ appTrace.out.cooldownStarted <=>
                 /\ appTrace.out.ending.error = "DECRYPTION_FAILED"
                 /\ Len(appTrace.out.failed) = MAX_DECRYPT_FAILS
          /\ Len(appTrace.out.failed) <= MAX_DECRYPT_FAILS
          /\ appTrace.out.cooldownStarted =>
                 app.decryptCooldownUntil = appTrace.out.now + DECRYPT_COOLDOWN_MS
    /\ InCooldownAtChecks =>
          /\ appTrace.out.rejected \in
                 {"SECURITY_COOLDOWN", "ROOM_CODE_INVALID", "HOST_NOT_READY"}
          /\ appTrace.out.rejected = "ROOM_CODE_INVALID" => appTrace.out.handler = "join"
          /\ appTrace.out.rejected = "HOST_NOT_READY" =>
                 appTrace.out.handler = "applyAnswer" /\ ~app.manager
    /\ NoFlowInCooldown

\* A cooldown started by five failed unlocks spread over more than 60 seconds
\* turns a later attempt away.
C23_Witness ==
    /\ appTrace.out.stage = "checks"
    /\ appTrace.out.rejected = "SECURITY_COOLDOWN"
    /\ appTrace.out.cooldownUntil = appTrace.out.now + AppGapMs
    /\ Len(appTrace.startedBy) = MAX_DECRYPT_FAILS
    /\ appTrace.startedBy[1] + DECRYPT_COOLDOWN_MS < appTrace.startedBy[5]

\* C24: once a flow has decrypted its offer or answer envelope the failure
\* counter is zero when the handler returns, whether the flow then ran to its end
\* or a later step of it (media acquisition, answer creation, applyAnswer) threw.
C24_DecryptSuccessResetsCounter ==
    (appTrace.out.stage = "try" /\ appTrace.out.decrypted) =>
        app.decryptFailureCount = 0

(***************************************************************************)
(* signalCrypto.ts: one opaque failure                                     *)
(***************************************************************************)

\* Losing only the "=" at the end of ciphertextB64 loses no ciphertext.
CiphertextDamaged ==
    \/ cryptoCall.damage.kind \in {"changed", "foreign"}
    \/ /\ cryptoCall.damage.kind = "cut"
       /\ cryptoCall.damage.cut > cryptoCall.padding

SomethingWrong ==
    \/ cryptoCall.wrongPassphrase
    \/ cryptoCall.wrongRoomCode
    \/ cryptoCall.wrongAssociatedData
    \/ CiphertextDamaged

\* C25: whenever the passphrase or the room code is wrong, the associated data
\* differs, or the ciphertext is truncated or corrupted, decryptJsonPayload
\* throws DECRYPTION_FAILED and nothing else, so the caller cannot tell the
\* causes apart; an undamaged blob opened with the right arguments gives the
\* payload back.
C25_SingleOpaqueFailure ==
    cryptoCall.op = "decryptJsonPayload" =>
        IF SomethingWrong
        THEN cryptoCall.result = Thrown("DECRYPTION_FAILED")
        ELSE cryptoCall.result = Returned(cryptoCall.payload)

(***************************************************************************)
(* WebRtcCallManager: applyAnswer                                          *)
(***************************************************************************)

\* The answers made by accepting an offer of the host `name`.
AnswersTo(name) ==
    {answer \in exchanged.answers :
        \E n \in 1..MaxOffers, joiner \in JoinerNames :
            answer.sdpAnswer = <<"answer-to", <<"offer", n, "of", name>>, "by", joiner>>}

SessionError == "The answer packet is for a different session."

\* C26: applyAnswer on an answer of another session throws the session error
\* and leaves the remote description and the candidates as they were; an answer
\* made by a joiner from this host's offer carries the host's sessionId, never
\* gets the session error, and is applied whenever the host's offer is pending.
C26_ApplyAnswerChecksSession ==
    /\ handshakeOut.op = "applyAnswer" =>
          LET before == handshakeOut.before
              after == peers[handshakeOut.by]
          IN /\ handshakeOut.answer.sessionId # before.sessionId =>
                   /\ ~handshakeOut.ok
                   /\ handshakeOut.error = SessionError
                   /\ after = before
             /\ handshakeOut.answer \in AnswersTo(handshakeOut.by) =>
                   /\ handshakeOut.error # SessionError
                   /\ before.signalingState = "have-local-offer" =>
                         /\ handshakeOut.ok
                         /\ after.remoteDescription =
                               Some([type |-> "answer",
                                     sdp |-> handshakeOut.answer.sdpAnswer])
    /\ \A name \in HostNames : \A answer \in AnswersTo(name) :
          answer.sessionId = peers[name].sessionId

\* The host turned an answer to the other host's offer away while its own offer
\* was pending, and an answer to its own offer is at hand.
C26_Witness ==
    /\ handshakeOut.op = "applyAnswer"
    /\ handshakeOut.by = "host"
    /\ handshakeOut.answer \in AnswersTo("otherHost")
    /\ handshakeOut.error = SessionError
    /\ peers["host"].signalingState = "have-local-offer"
    /\ peers["host"].remoteDescription = Null
    /\ AnswersTo("host") # {}

(***************************************************************************)
(* QualityController: completeRecovery                                     *)
(***************************************************************************)

\* C27: completeRecovery() in RECOVERING leaves the controller in HD_1080 and
\* reports HD_1080 with changed = TRUE; in every other state it leaves state
\* and counter alone and reports the state with changed = FALSE.
C27_CompleteRecoveryMoves ==
    lastCall.op = "completeRecovery" =>
        IF lastCall.before = RECOVERING
        THEN /\ qualityState = HD_1080
             /\ lastCall.nextState = HD_1080
             /\ lastCall.changed
        ELSE /\ qualityState = lastCall.before
             /\ stableSampleCount = lastCall.countBefore
             /\ lastCall.nextState = lastCall.before
             /\ ~lastCall.changed

(***************************************************************************)
(* DiagnosticsLog                                                          *)
(***************************************************************************)

Retained == diagLog.localEvents \o diagLog.remoteEvents

\* C28: when an insert into either log returns, no event of either log is more
\* than 15 minutes older than the time of the insert.
C28_NothingOlderThanFifteenMinutes ==
    diagOut.op = "add" =>
        \A i \in 1..Len(Retained) :
            Retained[i].timestamp >= diagOut.now - FIFTEEN_MINUTES_MS

\* Position of an event in the local log followed by the remote log.
RankOf(event) == CHOOSE i \in 1..Len(Retained) : Retained[i] = event

\* C29: getMergedEvents returns each retained event of the two logs once, in
\* non-decreasing timestamp order, events of equal timestamp in the order local
\* before remote and, within a log, in insertion order.
C29_MergedStableByTimestamp ==
    diagOut.op = "getMergedEvents" =>
        LET merged == diagOut.merged IN
        /\ Len(merged) = Len(diagLog.localEvents) + Len(diagLog.remoteEvents)
        /\ \A i \in 1..Len(Retained) :
              Cardinality({j \in 1..Len(merged) : merged[j] = Retained[i]}) = 1
        /\ \A i, j \in 1..Len(merged) :
              i < j => /\ merged[i].timestamp <= merged[j].timestamp
                       /\ merged[i].timestamp = merged[j].timestamp =>
                             RankOf(merged[i]) < RankOf(merged[j])

\* Two local and two remote events, a remote one inserted before a local one of
\* the same timestamp, and a log that is not in timestamp order.
C29_Witness ==
    /\ diagOut.op = "getMergedEvents"
    /\ Len(diagLog.localEvents) = 2
    /\ Len(diagLog.remoteEvents) = 2
    /\ diagLog.localEvents[1].timestamp > diagLog.localEvents[2].timestamp
    /\ \E i, j \in 1..2 :
          /\ diagLog.localEvents[i].timestamp = diagLog.remoteEvents[j].timestamp
          /\ diagLog.localEvents[i].n > diagLog.remoteEvents[j].n

(***************************************************************************)
(* WebRtcCallManager: malformed frames                                     *)
(***************************************************************************)

\* C30: a frame that is not a string, too long, not JSON, without type or
\* payload, of unknown type or with a payload of the wrong shape invokes no
\* callback, adds no diagnostics event and raises no error; a frame that is right
\* for its channel is processed however many malformed frames came before it.
C30_MalformedFramesDroppedSilently ==
    inbox.last.channel # "none" =>
        /\ inbox.last.why # "" => inbox.last.did = Quiet
        /\ inbox.last.why = "" /\ inbox.last.frame \in GoodFrames[inbox.last.channel] =>
              /\ inbox.last.did.thrown = ""
              /\ Len(inbox.last.did.callbacks) + Len(inbox.last.did.added) = 1

(***************************************************************************)
(* WebRtcCallManager: media toggles                                        *)
(***************************************************************************)

\* The audioEnabled / videoEnabled a control frame carries.
FlagsIn(frame) ==
    LET payload == Get(frame.decoded, "payload") IN
    [audioEnabled |-> Get(payload, "audioEnabled").b,
     videoEnabled |-> Get(payload, "videoEnabled").b]

AllTracks(tracks, enabled) == \A i \in 1..Len(tracks) : tracks[i] = enabled

\* C31: a toggle made while the chat channel is open sets every track of its
\* kind, leaves the others alone and hands the channel one control frame with
\* the flags the tracks now have; once everything handed to the channel has been
\* delivered, what the peer's onRemoteMediaState got last is the sender's flags.
C31_TogglesReachPeer ==
    /\ (controlsOut.op = "toggle" /\ controlsOut.before.chatChannel = "open") =>
          /\ IF controlsOut.kind = "audio"
             THEN /\ AllTracks(controls.audio, controlsOut.enabled)
                  /\ controls.video = controlsOut.before.video
             ELSE /\ AllTracks(controls.video, controlsOut.enabled)
                  /\ controls.audio = controlsOut.before.audio
          /\ Len(chatWire) = Len(controlsOut.wireBefore) + 1
          /\ SubSeq(chatWire, 1, Len(controlsOut.wireBefore)) = controlsOut.wireBefore
          /\ Get(chatWire[Len(chatWire)].decoded, "type") = JsString("control", 7)
          /\ LET sent == FlagsIn(chatWire[Len(chatWire)]) IN
             /\ AllTracks(controls.audio, sent.audioEnabled)
             /\ AllTracks(controls.video, sent.videoEnabled)
    /\ (controls.lastToggle = "sent" /\ chatWire = <<>> /\ ~controls.lost) =>
          /\ controls.peerMediaState # Null
          /\ AllTracks(controls.audio, ValueOf(controls.peerMediaState).audioEnabled)
          /\ AllTracks(controls.video, ValueOf(controls.peerMediaState).videoEnabled)

\* Microphone off, then camera off, both delivered: the peer shows both off.
C31_Witness ==
    /\ controls.lastToggle = "sent"
    /\ controls.calls = 2
    /\ chatWire = <<>>
    /\ ~controls.lost
    /\ controls.audio = <<FALSE>>
    /\ controls.video = <<FALSE, FALSE>>
    /\ controls.peerMediaState = Some([audioEnabled |-> FALSE, videoEnabled |-> FALSE])

\* C38: sendChatMessage reports the message to onChatMessage and records the
\* send time only if it handed a frame to an open chat channel.
C38_LocalEchoOnlyIfSent ==
    controlsOut.op = "sendChatMessage" =>
        LET reported == controls.localMessages > controlsOut.before.localMessages
            recorded == controls.lastChatSentAt # controlsOut.before.lastChatSentAt
            handed == /\ controlsOut.before.chatChannel = "open"
                      /\ Len(chatWire) = Len(controlsOut.wireBefore) + 1
        IN (reported \/ recorded) => handed

(***************************************************************************)
(* turn.ts: buildTurnCredentials                                           *)
(***************************************************************************)

\* The peerId reduced to at most 40 characters of [A-Za-z0-9_-].
ReducedPeerId(peerId) ==
    LET allowed == SelectSeq(peerId, LAMBDA ch : ch \in RoomCodeChars) IN
    IF Len(allowed) <= 40 THEN allowed ELSE SubSeq(allowed, 1, 40)

\* What C32 says of a call, given the peer part of the username.
TurnResultIs(peerPart) ==
    LET config == turnCall.config
        result == turnCall.result
        ttl == IF config.ttlSeconds > 30 THEN config.ttlSeconds ELSE 30
    IN /\ result.ttlSeconds = ttl
       /\ result = buildTurnCredentials(config, turnCall.peerId, turnCall.now)
       /\ IF config.sharedSecret = ""
          THEN result.username = <<>> /\ result.credential = ""
          ELSE /\ result.username = <<(turnCall.now \div 1000) + ttl, ":">> \o peerPart
               /\ result.credential = HmacSha1Base64(config.sharedSecret, result.username)

\* C32 as stated: ttlSeconds is max(30, configured ttl); with a shared secret
\* the username is floor(now/1000) + ttlSeconds, ":" and the reduced peerId, and
\* the credential its HMAC; without one both are empty.
C32_TurnCredentialsFromReducedPeer ==
    turnCall.op = "buildTurnCredentials" => TurnResultIs(ReducedPeerId(turnCall.peerId))

\* C32, amended: the same, with "guest" in the place of a peerId of which the
\* reduction leaves nothing.
C32_TurnCredentialsWithGuest ==
    turnCall.op = "buildTurnCredentials" =>
        TurnResultIs(IF ReducedPeerId(turnCall.peerId) = <<>>
                     THEN <<"g", "u", "e", "s", "t">>
                     ELSE ReducedPeerId(turnCall.peerId))

\* A peerId of 42 characters with a foreign one among the first 40, a ttl
\* below the floor, an instant inside a second.
C32_Witness ==
    /\ turnCall.op = "buildTurnCredentials"
    /\ turnCall.peerId = Repeat("q", 39) \o <<"!", "r", "s">>
    /\ turnCall.config.ttlSeconds = 29
    /\ turnCall.config.sharedSecret = "super-secret"
    /\ turnCall.now = 999
    /\ turnCall.result.username = <<30, ":">> \o Repeat("q", 39) \o <<"r">>

(***************************************************************************)
(* media.ts: getLocalMediaStream                                           *)
(***************************************************************************)

PermissionDenied(answer) ==
    ~answer.ok /\ answer.domException
    /\ answer.name \in {"NotAllowedError", "PermissionDeniedError"}

\* C33: getLocalMediaStream asks for the target constraints first; when that
\* fails for another reason than a denied permission it asks again with a
\* fallback profile and returns that stream; a denied permission is
\* DEVICE_DENIED, missing media support MEDIA_UNSUPPORTED.
C33_FallbackProfileAfterFailure ==
    mediaCall.op = "getLocalMediaStream" =>
        LET navigator == mediaCall.navigator
            first == navigator.answers[1]
            second == navigator.answers[2]
        IN IF ~(navigator.mediaDevices /\ navigator.getUserMedia)
           THEN mediaCall.result = Thrown("MEDIA_UNSUPPORTED")
           ELSE /\ Len(mediaCall.requests) >= 1
                /\ mediaCall.requests[1] = "targetMediaConstraints"
                /\ first.ok => mediaCall.result = Returned(first.stream)
                /\ PermissionDenied(first) => mediaCall.result = Thrown("DEVICE_DENIED")
                /\ (~first.ok /\ ~PermissionDenied(first) /\ second.ok) =>
                       /\ Len(mediaCall.requests) = 2
                       /\ mediaCall.result = Returned(second.stream)

(***************************************************************************)
(* webrtcCallManager.ts: the stats loop                                    *)
(***************************************************************************)

\* C34: RECOVERING is never held in the call controller: between the steps of
\* the stats ticks, overlapping or not, activeQuality and the quality
\* controller's state are the same active ladder state; a tick on which the
\* controller reported RECOVERING moved activeQuality exactly one rung toward
\* HD_1080 (none from HD_1080); and every completed tick reported that state.
C34_RecoveringNeverHeld ==
    /\ activeQuality = qualityState
    /\ activeQuality \in {HD_1080, HD_720, SD_480}
    /\ (statsLoop.decided.op = "tick" /\ statsLoop.decided.recovering) =>
           LET before == RecoveryIndexOf(statsLoop.decided.before) IN
           RecoveryIndexOf(statsLoop.decided.after) = IF before = 2 THEN 2 ELSE before + 1
    /\ statsLoop.completed.op = "onStats" =>
           statsLoop.completed.qualityState \in {HD_1080, HD_720, SD_480}

\* Two rungs down, then a recovery decided while two other ticks are in flight.
C34_Witness ==
    /\ statsLoop.decided.op = "tick"
    /\ statsLoop.decided.recovering
    /\ statsLoop.decided.before = SD_480
    /\ activeQuality = HD_720
    /\ statsLoop.atGetStats + statsLoop.applying >= 2

(***************************************************************************)
(* signalPacket.ts: chunk lines                                            *)
(***************************************************************************)

\* The whole number a token stands for, 0 when it stands for none.
WholeNumberOf(token) ==
    CASE token \in {"1", "01"} -> 1
      [] token = "2" -> 2
      [] token = "3" -> 3
      [] OTHER -> 0

\* C35: decodeEnvelopeFromTransport assembles a payload only if all chunk
\* lines share one packetId and one partTotal N and their distinct part
\* indices are exactly the integers 1..N.
C35_AssemblesOnlyWholeSets ==
    (chunkCall.op = "decodeEnvelopeFromTransport" /\ chunkCall.assembled.ok) =>
        LET lines == chunkCall.lines
            N == WholeNumberOf(lines[1].total)
        IN /\ \A i \in 1..Len(lines) :
                 /\ lines[i].packetId = lines[1].packetId
                 /\ WholeNumberOf(lines[i].total) = N
                 /\ WholeNumberOf(lines[i].index) >= 1
           /\ N >= 1
           /\ {WholeNumberOf(lines[i].index) : i \in 1..Len(lines)} = 1..N

(***************************************************************************)
(* server.ts: sessions and role slots                                      *)
(***************************************************************************)

\* The live sessions of a room all have a peerId that is not empty.
NamedSessionsOnly(roomId) ==
    \A sock \in LiveSockets : sock.c.roomId = roomId => sock.c.peerId # ""

\* C36: each open session admitted to a room stays registered in the room's
\* connection table under its peerId, and its role slot keeps its peerId,
\* until that session's own socket closes: while the room lives, the peerId of
\* every open session is a key of the room's table and holds the slot of the
\* session's role, also after an older socket of the same peerId has closed.
\* Stated for rooms whose sessions all have a peerId that is not empty.
C36_SessionsStayRegistered ==
    \A sock \in LiveSockets :
        (/\ sock.c.readyState = "OPEN"
         /\ sock.c.roomId \in DOMAIN rooms
         /\ NamedSessionsOnly(sock.c.roomId)) =>
            /\ sock.c.roomId \in DOMAIN connectionsByRoom
            /\ PeerMapHas(connectionsByRoom[sock.c.roomId], sock.c.peerId)
            /\ SlotOf(sock.c.roomId, sock.c.role) = Some(sock.c.peerId)

\* The peerIds admitted to a room: those of its live sessions.
PeersOfLiveSessions(roomId) ==
    {sock.c.peerId : sock \in {s \in LiveSockets : s.c.roomId = roomId}}

\* C39: participantCount(room) is the number of distinct peers currently
\* admitted to the room, and no peerId holds the host slot and the guest slot
\* of a room at the same time.  Stated for rooms whose sessions are all open,
\* with a peerId that is not empty, registered in the table and holding the
\* slot of their role.
C39_CountIsDistinctAdmittedPeers ==
    \A roomId \in DOMAIN rooms :
        (/\ NamedSessionsOnly(roomId)
         /\ \A sock \in LiveSockets :
               sock.c.roomId = roomId =>
                   /\ sock.c.readyState = "OPEN"
                   /\ roomId \in DOMAIN connectionsByRoom
                   /\ PeerMapHas(connectionsByRoom[roomId], sock.c.peerId)
                   /\ SlotOf(roomId, sock.c.role) = Some(sock.c.peerId)) =>
            /\ participantCount(rooms, roomId) = Cardinality(PeersOfLiveSessions(roomId))
            /\ (rooms[roomId].hostPeerId # Null) =>
                   rooms[roomId].hostPeerId # rooms[roomId].guestPeerId

(***************************************************************************)
(* RateLimiter: prune                                                      *)
(***************************************************************************)

\* C40: prune never changes the outcome of a later allow: every allow returns
\* what it returns on a limiter given the same allow calls and no prune, with
\* time that never goes back; and prune removes only buckets whose window
\* started at least 2 * windowMs ago, leaving the others as they were.
C40_PruneChangesNoVerdict ==
    /\ limiterTrace.call.op = "allow" =>
           limiterTrace.call.ok = limiterTrace.call.okUnpruned
    /\ limiterTrace.call.op = "prune" =>
           /\ \A key \in DOMAIN limiterTrace.call.before :
                 IF key \in DOMAIN limiter.buckets
                 THEN limiter.buckets[key] = limiterTrace.call.before[key]
                 ELSE limiterTrace.call.now - limiterTrace.call.before[key].windowStart
                          >= 2 * limiter.windowMs
           /\ DOMAIN limiter.buckets \subseteq DOMAIN limiterTrace.call.before

\* An allow for a key whose bucket a prune had removed, granted.
C40_Witness ==
    /\ limiterTrace.call.op = "allow"
    /\ limiterTrace.call.pruned
    /\ limiterTrace.call.ok
    /\ Len(limiterTrace.grants[limiterTrace.call.key]) >= 2

(***************************************************************************)
(* Online mode: offers                                                     *)
(***************************************************************************)

Registered(role) ==
    \E i \in 1..Len(roomSessions.sessions) : roomSessions.sessions[i].role = role

\* A guest session is in the room with the host session and no offer has
\* been relayed to it.
GuestAwaitsOffer ==
    Registered("guest") /\ Registered("host") /\ ~roomSessions.offerRelayed

\* Frames of a type among those a page has sent and the broker not yet taken.
Sent(role, type) ==
    \E i \in 1..Len(wires.fromPage[role]) : wires.fromPage[role][i].type = type

\* C37: whenever a guest session joins a room in which the host session is
\* present (in either order, also a guest that comes again, and after a guest
\* that left before answering), the host eventually sends an offer that is
\* relayed to that guest, unless the guest leaves first; only the host sends
\* offers and only the guest sends answers.
C37_GuestEventuallyGetsOffer ==
    /\ [](~Sent("guest", "offer") /\ ~Sent("host", "answer"))
    /\ (GuestAwaitsOffer ~> (roomSessions.offerRelayed \/ ~Registered("guest")))
====
